---- MODULE Spec2Model ----
(***************************************************************************)
(* Model of rr's trace stream subsystem (src/src/TraceStream.cc):          *)
(* TraceWriter appends records to six substreams, TraceReader decodes      *)
(* them sequentially with one cursor per substream and a frame clock.      *)
(*                                                                         *)
(* Binary substreams (events, data_header, data, generic) are sequences    *)
(* of integer tokens, one token per scalar written with operator<< or per  *)
(* byte of a write(buf, len).  Structured substreams (mmaps, tasks) are    *)
(* sequences of messages, one per writePackedMessage.  A reader cursor is  *)
(* the number of tokens (messages) consumed so far.                        *)
(*                                                                         *)
(* assert() and FATAL() end the process: the model records this in the     *)
(* failed flag of the reader (or in wstate = "failed" for the writer) and  *)
(* the process takes no further step.  I/O errors of the compressed        *)
(* streams are not modelled.                                               *)
(***************************************************************************)
EXTENDS Integers, Sequences, FiniteSets, TLC

VARIABLES
  wstate,                  \* writer: "open", "closed" (after close()), "failed"
  wtime,                   \* TraceWriter's global_time
  mmap_count,              \* TraceWriter::mmap_count
  files_assumed_immutable, \* TraceWriter::files_assumed_immutable
  trace_files,             \* names created in the trace directory by the writer
  supports_file_data_cloning_, \* TraceWriter::supports_file_data_cloning_
  version_file,            \* the bytes of the trace directory's version file
  streams,                 \* contents of the six substreams
  W,                       \* history: the logical records handed to each write_*
  rd,                      \* the TraceReader objects: clock, cursors, liveness
  fs,                      \* the file system outside the trace directory
  pr,                      \* the recorder processes that set up trace directories
  last                     \* history: the last operation, its inputs and result

vars == <<wstate, wtime, mmap_count, files_assumed_immutable, trace_files,
          supports_file_data_cloning_, version_file, streams, W, rd, fs, pr,
          last>>

writerVars == <<wstate, wtime, mmap_count, files_assumed_immutable,
                trace_files, supports_file_data_cloning_, version_file,
                streams, W, fs, pr>>

\* what the constructor of TraceWriter leaves for good, and the directories
\* around the trace
ctorVars == <<supports_file_data_cloning_, version_file, fs, pr>>

(***************************************************************************)
(* Bounds of the model.                                                    *)
(***************************************************************************)
\* total number of write_* calls explored before close()
MaxWrites == 3
\* number of write_mapped_region calls explored in SpecMmap
MaxMmaps == 2

(***************************************************************************)
(* Program constants.                                                      *)
(***************************************************************************)
\* SupportedArch tags stored in EVENTS
x86 == 0
x86_64 == 1
\* register block sizes (in tokens) the reader consumes for each arch
X86RegsSize == 1
X64RegsSize == 2
\* ExtraRegisters::Format values
FormatNONE == 0
FormatXSAVE == 1
\* encoded events: one without and one with exec info
EvSched == 0
EvSyscall == 1
\* the clocks' initial values
WriterInitialTime == 1
ReaderInitialTime == 0

Substreams == {"events", "data_header", "data", "mmaps", "tasks", "generic"}

Readers == {1, 2}

(***************************************************************************)
(* Helpers on token streams.                                               *)
(***************************************************************************)
\* the i-th token of s; a read past the end of a stream yields 0
Tok(s, i) == IF i >= 1 /\ i <= Len(s) THEN s[i] ELSE 0

\* the n tokens of s that follow cursor c
Take(s, c, n) == [k \in 1..n |-> Tok(s, c + k)]

\* CompressedReader::at_end for a cursor c on stream s
at_end(s, c) == c >= Len(s)

\* Event::has_exec_info of an encoded event
has_exec_info(ev) == ev = EvSyscall

(***************************************************************************)
(* TraceWriter: frames, raw data, generic data.                            *)
(***************************************************************************)
\* faulty variant: global_time is left as memset() set it
BasicInfo_no_time(frame) ==
  <<0, frame.tid, frame.ev, frame.ticks, frame.monotonic_sec>>

\* the BasicInfo struct as it is laid out in EVENTS
BasicInfo(frame) ==
  <<frame.time, frame.tid, frame.ev, frame.ticks, frame.monotonic_sec>>

\* Registers::get_ptrace_for_self_arch: the register block of the frame's arch
get_ptrace_for_self_arch(frame) == frame.regs

\* the tokens write_frame appends to EVENTS for one frame
EncodeFrame(frame) ==
  BasicInfo(frame) \o
  (IF has_exec_info(frame.ev)
     THEN <<frame.arch>> \o get_ptrace_for_self_arch(frame) \o
          <<frame.format, Len(frame.extra)>> \o
          (IF Len(frame.extra) > 0 THEN frame.extra ELSE <<>>)
     ELSE <<>>)

NumWrites ==
  Len(W.events) + Len(W.raw) + Len(W.generic) + Len(W.tasks) + Len(W.mmaps)

CanWrite == wstate = "open" /\ NumWrites < MaxWrites

write_frame(frame) ==
  /\ CanWrite
  /\ streams' = [streams EXCEPT !.events = @ \o EncodeFrame(frame)]
  /\ W' = [W EXCEPT !.events = Append(@, frame)]
  /\ wtime' = wtime + 1
  /\ last' = [op |-> "write_frame", frame |-> frame, pre_time |-> wtime]
  /\ UNCHANGED <<wstate, mmap_count, files_assumed_immutable, trace_files, rd>>
  /\ UNCHANGED ctorVars

\* faulty variant: the header is stamped with the time of the frame written last
RawHeader_previous_frame(time, rec_tid, addr, len) ==
  <<time - 1, rec_tid, addr, len>>

\* the RAW_DATA_HEADER tokens of one write_raw
RawHeader(time, rec_tid, addr, len) == <<time, rec_tid, addr, len>>

write_raw(rec_tid, d, addr) ==
  /\ CanWrite
  /\ streams' = [streams EXCEPT
                   !.data_header = @ \o RawHeader(wtime, rec_tid, addr, Len(d)),
                   !.data = @ \o d]
  /\ W' = [W EXCEPT !.raw = Append(@, [time |-> wtime, rec_tid |-> rec_tid,
                                       addr |-> addr, data |-> d,
                                       frames_before |-> Len(W.events)])]
  /\ last' = [op |-> "write_raw", pre_time |-> wtime]
  /\ UNCHANGED <<wstate, wtime, mmap_count, files_assumed_immutable,
                 trace_files, rd>>
  /\ UNCHANGED ctorVars

\* faulty variant: the record is stamped with the time before the clock's
GenericRecord_previous_time(time, d) == <<time - 1, Len(d)>> \o d

\* the GENERIC tokens of one write_generic
GenericRecord(time, d) == <<time, Len(d)>> \o d

write_generic(d) ==
  /\ CanWrite
  /\ streams' = [streams EXCEPT !.generic = @ \o GenericRecord(wtime, d)]
  /\ W' = [W EXCEPT !.generic = Append(@, [time |-> wtime, data |-> d])]
  /\ last' = [op |-> "write_generic", pre_time |-> wtime]
  /\ UNCHANGED <<wstate, wtime, mmap_count, files_assumed_immutable,
                 trace_files, rd>>
  /\ UNCHANGED ctorVars

(***************************************************************************)
(* Strings are sequences of one-character strings.                         *)
(***************************************************************************)
\* kj::ArrayPtr over str.data(), str.size(): all size() bytes, NULs included
str_to_data(str) == SubSeq(str, 1, Len(str))

\* string(data.begin(), data.size())
data_to_str(data) == SubSeq(data, 1, Len(data))

\* does str begin with prefix (str.find(prefix) == 0,
\* str.substr(0, prefix.size()) == prefix)
StartsWith(str, prefix) ==
  /\ Len(str) >= Len(prefix)
  /\ SubSeq(str, 1, Len(prefix)) = prefix

\* positions of '/' in str
SlashPositions(str) == {i \in 1..Len(str) : str[i] = "/"}

MaxOf(S) == CHOOSE m \in S : \A x \in S : x <= m

base_file_name(file_name) ==
  IF SlashPositions(file_name) # {}
    THEN SubSeq(file_name, MaxOf(SlashPositions(file_name)) + 1, Len(file_name))
    ELSE file_name

Digit(d) == <<"0", "1", "2", "3", "4", "5", "6", "7", "8", "9">>[d + 1]

\* sprintf(count_str, "%d", n) for n >= 0
RECURSIVE sprintf_d(_)
sprintf_d(n) ==
  IF n < 10 THEN <<Digit(n)>> ELSE sprintf_d(n \div 10) \o <<Digit(n % 10)>>

SYSV == <<"/", "S", "Y", "S", "V">>
DevZeroDeleted ==
  <<"/", "d", "e", "v", "/", "z", "e", "r", "o", " ",
    "(", "d", "e", "l", "e", "t", "e", "d", ")">>
mmap_hardlink_ ==
  <<"m", "m", "a", "p", "_", "h", "a", "r", "d", "l", "i", "n", "k", "_">>
mmap_clone_ == <<"m", "m", "a", "p", "_", "c", "l", "o", "n", "e", "_">>
clone_prefix == mmap_clone_

\* TraceStream::dir(), the trace directory
dir == <<"/", "t">>

(***************************************************************************)
(* The file system outside the trace directory.  fs maps every existing    *)
(* path to its entry: st_mode's file type bits, whether access(W_OK)       *)
(* succeeds, and for a symlink its target.  A recorder process is a record  *)
(*   pc     : "idle", "mkdir" (in make_trace_dir's loop), "bound" (the      *)
(*            trace directory is made), "symlink" (in make_latest_trace,    *)
(*            after unlink), "done", "fatal"                                *)
(*   nonce  : make_trace_dir's nonce                                        *)
(*   dir    : the trace directory made                                      *)
(*   pre    : history, the paths that existed when make_trace_dir began     *)
(*   tried  : history, the results of the mkdir calls so far                *)
(*   ret    : history, the result of make_latest_trace's symlink call       *)
(*   saw    : history, where latest-trace pointed when symlink returned     *)
(***************************************************************************)
\* number of recorder processes
NumRecorders == 2
Recorders == 1..NumRecorders

\* st_mode file types
S_IFDIR == 16384
S_IFREG == 32768
S_IFBLK == 24576
S_IFLNK == 40960

Dir(writable) == [mode |-> S_IFDIR, writable |-> writable, target |-> <<>>]
Symlink(target) == [mode |-> S_IFLNK, writable |-> TRUE, target |-> target]

\* trace_save_dir() of the recorders
TraceRoot == <<"/", "r">>

IdleRecorder ==
  [pc |-> "idle", nonce |-> 0, dir |-> <<>>, pre |-> {}, tried |-> <<>>,
   ret |-> "none", saw |-> <<>>]

\* the trace root alone
RootOnly == (TraceRoot :> Dir(TRUE))

(***************************************************************************)
(* TraceWriter's constructor: the version file and the cloning probe.      *)
(***************************************************************************)
\* the version of the trace format
TRACE_VERSION == 85

\* the names of the version file and of the probe file in the trace directory
version_name == <<"v", "e", "r", "s", "i", "o", "n">>
tmp_clone == <<"t", "m", "p", "_", "c", "l", "o", "n", "e">>

\* the packed trace::Header that follows the version line: bind_to_cpu and
\* has_cpuid_faulting (CPUID records and UUID are left out)
HeaderBytes(bind_to_cpu, has_cpuid_faulting) ==
  <<Digit(bind_to_cpu), IF has_cpuid_faulting THEN "1" ELSE "0">>

\* the bytes of the version file a writer of format trace_version leaves:
\* STR(TRACE_VERSION) "\n" and the packed header
VersionFile(trace_version, header) ==
  sprintf_d(trace_version) \o <<"\n">> \o header

\* faulty variant: the probe file is removed only when the ioctl failed
ProbeCloning_keep_clone(files, ioctl_ok) ==
  [supports |-> ioctl_ok,
   files |-> IF ioctl_ok THEN files \cup {tmp_clone}
             ELSE (files \cup {tmp_clone}) \ {tmp_clone}]

\* The cloning probe at the end of the constructor: tmp_clone is created,
\* supports_file_data_cloning_ (false so far) is set when the clone-range
\* ioctl returns 0, tmp_clone is unlinked.  ioctl_ok is the ioctl's outcome.
ProbeCloning(files, ioctl_ok) ==
  [supports |-> IF ioctl_ok THEN TRUE ELSE FALSE,
   files |-> (files \cup {tmp_clone}) \ {tmp_clone}]

(***************************************************************************)
(* TraceWriter: task events.                                               *)
(***************************************************************************)
\* the trace::TaskEvent message write_task_event builds
TaskMessage(event, time) ==
  [frameTime |-> time,
   tid |-> event.tid,
   which |-> event.type,
   parentTid |-> IF event.type = "CLONE" THEN event.parent_tid ELSE 0,
   ownNsTid |-> IF event.type = "CLONE" THEN event.own_ns_tid ELSE 0,
   flags |-> IF event.type = "CLONE" THEN event.clone_flags ELSE 0,
   fileName |-> IF event.type = "EXEC" THEN str_to_data(event.file_name)
                ELSE <<>>,
   cmdLine |-> IF event.type = "EXEC"
                 THEN [i \in 1..Len(event.cmd_line) |->
                         str_to_data(event.cmd_line[i])]
                 ELSE <<>>,
   exitStatus |-> IF event.type = "EXIT" THEN event.exit_status ELSE 0]

write_task_event(event) ==
  /\ CanWrite
  /\ IF event.type = "NONE"
       THEN \* assert(0 && "Writing NONE TraceTaskEvent")
            /\ wstate' = "failed"
            /\ UNCHANGED <<streams, W>>
       ELSE /\ streams' = [streams EXCEPT
                             !.tasks = Append(@, TaskMessage(event, wtime))]
            /\ W' = [W EXCEPT !.tasks = Append(@, event)]
            /\ UNCHANGED wstate
  /\ last' = [op |-> "write_task_event", event |-> event, pre_time |-> wtime]
  /\ UNCHANGED <<wtime, mmap_count, files_assumed_immutable, trace_files, rd>>
  /\ UNCHANGED ctorVars

(***************************************************************************)
(* TraceWriter: mapped regions.                                            *)
(***************************************************************************)
MAP_SHARED == 1
MAP_PRIVATE == 2

\* flags & MAP_PRIVATE
IsPrivate(flags) == (flags \div MAP_PRIVATE) % 2 = 1

\* the name try_clone_file gives the clone of file_name
CloneName(count, file_name) ==
  mmap_clone_ \o sprintf_d(count) \o <<"_">> \o base_file_name(file_name)

\* the name try_hardlink_file gives the hardlink of file_name
HardlinkName(count, file_name) ==
  mmap_hardlink_ \o sprintf_d(count) \o <<"_">> \o base_file_name(file_name)

\* try_clone_file succeeds: the session uses file cloning, the source opens,
\* the destination is created exclusively and the clone ioctl succeeds
\* (ioctl_ok stands for the outcome of the system calls)
try_clone_file(use_file_cloning, ioctl_ok, count, file_name, files) ==
  /\ use_file_cloning
  /\ CloneName(count, file_name) \notin files
  /\ ioctl_ok

\* link() succeeds (link_ok stands for the outcome of the system call)
try_hardlink_ok(link_ok, count, file_name, files) ==
  /\ HardlinkName(count, file_name) \notin files
  /\ link_ok

\* try_hardlink_file: the link's name, or the original name when link() fails
try_hardlink_file(link_ok, count, file_name, files) ==
  IF try_hardlink_ok(link_ok, count, file_name, files)
    THEN HardlinkName(count, file_name)
    ELSE file_name

\* faulty variant: the RR_BUFFER test comes before the /SYSV test
ClassifyMapping_buffer_first(km, stat, origin, env, count, fai, files) ==
  LET clone == CloneName(count, km.fsname)
      zero == [source |-> "Zero", backing |-> <<>>, fai |-> fai, files |-> files]
      trace == [source |-> "Trace", backing |-> <<>>, fai |-> fai, files |-> files]
  IN
  IF origin = "REMAP_MAPPING" \/ origin = "PATCH_MAPPING" THEN zero
  ELSE IF origin = "RR_BUFFER_MAPPING" THEN zero
  ELSE IF StartsWith(km.fsname, SYSV) THEN trace
  ELSE IF origin = "SYSCALL_MAPPING" /\
          (km.inode = 0 \/ km.fsname = DevZeroDeleted) THEN zero
  ELSE IF IsPrivate(km.flags) /\
          try_clone_file(env.use_file_cloning, env.clone5, count, km.fsname, files)
    THEN [source |-> "File", backing |-> clone, fai |-> fai,
          files |-> files \cup {clone}]
  ELSE IF env.should_copy /\ <<stat.st_dev, stat.st_ino>> \notin fai THEN trace
  ELSE IF try_clone_file(env.use_file_cloning, env.clone7, count, km.fsname, files)
    THEN [source |-> "File", backing |-> clone, fai |-> fai,
          files |-> files \cup {clone}]
  ELSE [source |-> "File",
        backing |-> try_hardlink_file(env.link, count, km.fsname, files),
        fai |-> fai \cup {<<stat.st_dev, stat.st_ino>>},
        files |-> IF try_hardlink_ok(env.link, count, km.fsname, files)
                    THEN files \cup {HardlinkName(count, km.fsname)}
                    ELSE files]

\* faulty variant: the last branch also assumes a file immutable when its
\* clone succeeded
ClassifyMapping_assume_cloned(km, stat, origin, env, count, fai, files) ==
  LET clone == CloneName(count, km.fsname)
      zero == [source |-> "Zero", backing |-> <<>>, fai |-> fai, files |-> files]
      trace == [source |-> "Trace", backing |-> <<>>, fai |-> fai, files |-> files]
  IN
  IF origin = "REMAP_MAPPING" \/ origin = "PATCH_MAPPING" THEN zero
  ELSE IF StartsWith(km.fsname, SYSV) THEN trace
  ELSE IF origin = "SYSCALL_MAPPING" /\
          (km.inode = 0 \/ km.fsname = DevZeroDeleted) THEN zero
  ELSE IF origin = "RR_BUFFER_MAPPING" THEN zero
  ELSE IF IsPrivate(km.flags) /\
          try_clone_file(env.use_file_cloning, env.clone5, count, km.fsname, files)
    THEN [source |-> "File", backing |-> clone, fai |-> fai,
          files |-> files \cup {clone}]
  ELSE IF env.should_copy /\ <<stat.st_dev, stat.st_ino>> \notin fai THEN trace
  ELSE IF try_clone_file(env.use_file_cloning, env.clone7, count, km.fsname, files)
    THEN [source |-> "File", backing |-> clone,
          fai |-> fai \cup {<<stat.st_dev, stat.st_ino>>},
          files |-> files \cup {clone}]
  ELSE [source |-> "File",
        backing |-> try_hardlink_file(env.link, count, km.fsname, files),
        fai |-> fai \cup {<<stat.st_dev, stat.st_ino>>},
        files |-> IF try_hardlink_ok(env.link, count, km.fsname, files)
                    THEN files \cup {HardlinkName(count, km.fsname)}
                    ELSE files]

\* faulty variant: the last branch forgets the files assumed immutable before
ClassifyMapping_forgetful(km, stat, origin, env, count, fai, files) ==
  LET clone == CloneName(count, km.fsname)
      zero == [source |-> "Zero", backing |-> <<>>, fai |-> fai, files |-> files]
      trace == [source |-> "Trace", backing |-> <<>>, fai |-> fai, files |-> files]
  IN
  IF origin = "REMAP_MAPPING" \/ origin = "PATCH_MAPPING" THEN zero
  ELSE IF StartsWith(km.fsname, SYSV) THEN trace
  ELSE IF origin = "SYSCALL_MAPPING" /\
          (km.inode = 0 \/ km.fsname = DevZeroDeleted) THEN zero
  ELSE IF origin = "RR_BUFFER_MAPPING" THEN zero
  ELSE IF IsPrivate(km.flags) /\
          try_clone_file(env.use_file_cloning, env.clone5, count, km.fsname, files)
    THEN [source |-> "File", backing |-> clone, fai |-> fai,
          files |-> files \cup {clone}]
  ELSE IF env.should_copy /\ <<stat.st_dev, stat.st_ino>> \notin fai THEN trace
  ELSE IF try_clone_file(env.use_file_cloning, env.clone7, count, km.fsname, files)
    THEN [source |-> "File", backing |-> clone, fai |-> fai,
          files |-> files \cup {clone}]
  ELSE [source |-> "File",
        backing |-> try_hardlink_file(env.link, count, km.fsname, files),
        fai |-> {<<stat.st_dev, stat.st_ino>>},
        files |-> IF try_hardlink_ok(env.link, count, km.fsname, files)
                    THEN files \cup {HardlinkName(count, km.fsname)}
                    ELSE files]

\* The if/else-if chain of write_mapped_region.  env holds the session's
\* use_file_cloning flag, the result of should_copy_mmap_region(km, stat) and
\* the outcomes of the system calls of the clone attempted in the fifth
\* branch (clone5), of the clone attempted in the last branch (clone7) and
\* of link().
\* Result: the source variant, the backing file name, the set
\* files_assumed_immutable and the files of the trace directory afterwards.
ClassifyMapping(km, stat, origin, env, count, fai, files) ==
  LET clone == CloneName(count, km.fsname)
      zero == [source |-> "Zero", backing |-> <<>>, fai |-> fai, files |-> files]
      trace == [source |-> "Trace", backing |-> <<>>, fai |-> fai, files |-> files]
  IN
  IF origin = "REMAP_MAPPING" \/ origin = "PATCH_MAPPING" THEN zero
  ELSE IF StartsWith(km.fsname, SYSV) THEN trace
  ELSE IF origin = "SYSCALL_MAPPING" /\
          (km.inode = 0 \/ km.fsname = DevZeroDeleted) THEN zero
  ELSE IF origin = "RR_BUFFER_MAPPING" THEN zero
  ELSE IF IsPrivate(km.flags) /\
          try_clone_file(env.use_file_cloning, env.clone5, count, km.fsname, files)
    THEN [source |-> "File", backing |-> clone, fai |-> fai,
          files |-> files \cup {clone}]
  ELSE IF env.should_copy /\ <<stat.st_dev, stat.st_ino>> \notin fai THEN trace
  ELSE IF try_clone_file(env.use_file_cloning, env.clone7, count, km.fsname, files)
    THEN [source |-> "File", backing |-> clone, fai |-> fai,
          files |-> files \cup {clone}]
  ELSE [source |-> "File",
        backing |-> try_hardlink_file(env.link, count, km.fsname, files),
        fai |-> fai \cup {<<stat.st_dev, stat.st_ino>>},
        files |-> IF try_hardlink_ok(env.link, count, km.fsname, files)
                    THEN files \cup {HardlinkName(count, km.fsname)}
                    ELSE files]

\* the trace::MMap message write_mapped_region builds
MMapMessage(km, stat, time, source, backing) ==
  [frameTime |-> time,
   start |-> km.start, end |-> km.end,
   fsname |-> str_to_data(km.fsname),
   device |-> km.device, inode |-> km.inode,
   prot |-> km.prot, flags |-> km.flags,
   fileOffsetBytes |-> km.file_offset_bytes,
   statMode |-> stat.st_mode, statUid |-> stat.st_uid,
   statGid |-> stat.st_gid, statSize |-> stat.st_size,
   statMTime |-> stat.st_mtime,
   source |-> source,
   backingFileName |-> str_to_data(backing)]

\* faulty variant: everything but a Zero source is recorded in the trace
RecordInTrace_unless_zero(source) ==
  IF source # "Zero" THEN "RECORD_IN_TRACE" ELSE "DONT_RECORD_IN_TRACE"

\* src.isTrace() ? RECORD_IN_TRACE : DONT_RECORD_IN_TRACE
RecordInTrace(source) ==
  IF source = "Trace" THEN "RECORD_IN_TRACE" ELSE "DONT_RECORD_IN_TRACE"

\* faulty variant: the count stays what it was
write_mapped_region_same_count(km, stat, origin, env) ==
  LET c == ClassifyMapping(km, stat, origin, env, mmap_count,
                           files_assumed_immutable, trace_files)
      msg == MMapMessage(km, stat, wtime, c.source, c.backing)
  IN
  /\ CanWrite
  /\ streams' = [streams EXCEPT !.mmaps = Append(@, msg)]
  /\ W' = [W EXCEPT !.mmaps = Append(@, [km |-> km, stat |-> stat,
                                         origin |-> origin, time |-> wtime])]
  /\ files_assumed_immutable' = c.fai
  /\ trace_files' = c.files
  /\ mmap_count' = mmap_count
  /\ last' = [op |-> "write_mapped_region", pre_time |-> wtime,
              pre_count |-> mmap_count,
              pre_fai |-> files_assumed_immutable,
              pre_files |-> trace_files,
              ret |-> RecordInTrace(c.source)]
  /\ UNCHANGED <<wstate, wtime, rd>>
  /\ UNCHANGED ctorVars

write_mapped_region(km, stat, origin, env) ==
  LET c == ClassifyMapping(km, stat, origin, env, mmap_count,
                           files_assumed_immutable, trace_files)
      msg == MMapMessage(km, stat, wtime, c.source, c.backing)
  IN
  /\ CanWrite
  /\ streams' = [streams EXCEPT !.mmaps = Append(@, msg)]
  /\ W' = [W EXCEPT !.mmaps = Append(@, [km |-> km, stat |-> stat,
                                         origin |-> origin, time |-> wtime])]
  /\ files_assumed_immutable' = c.fai
  /\ trace_files' = c.files
  /\ mmap_count' = mmap_count + 1
  /\ last' = [op |-> "write_mapped_region", pre_time |-> wtime,
              pre_count |-> mmap_count,
              pre_fai |-> files_assumed_immutable,
              pre_files |-> trace_files,
              ret |-> RecordInTrace(c.source)]
  /\ UNCHANGED <<wstate, wtime, rd>>
  /\ UNCHANGED ctorVars

(***************************************************************************)
(* TraceReader.  A reader is a record                                      *)
(*   active : the object has been constructed                              *)
(*   failed : an assert() or FATAL() ended the reading process             *)
(*   time   : global_time                                                  *)
(*   cur    : the cursor of each substream's CompressedReader              *)
(*   dec    : the identity of its six CompressedReader objects; readers    *)
(*            with the same dec share their cursors                        *)
(*   n      : history, the number of records consumed from each stream     *)
(***************************************************************************)
ZeroCursors == [s \in Substreams |-> 0]

NoReader == [active |-> FALSE, failed |-> FALSE, time |-> 0,
             cur |-> ZeroCursors, dec |-> 0, n |-> ZeroCursors]

\* the frame read_frame returns when the event carries no exec info
NoExecInfo == [arch |-> x86, regs |-> <<>>, format |-> FormatNONE, extra |-> <<>>]

\* ExtraRegisters::set_to_raw_data accepts the data
set_to_raw_data(format, data) == format = FormatXSAVE

\* faulty variant: the reader takes every register block for an x86_64 block
user_regs_struct_size_x64(a) == X64RegsSize

\* the register block size read_frame reads for arch tag a
user_regs_struct_size(a) == IF a = x86 THEN X86RegsSize ELSE X64RegsSize

\* The decoding part of read_frame on EVENTS stream ev at cursor c:
\* the frame, the cursor afterwards, and whether a FATAL() or the
\* extra_reg_format assertion ended the process.
DecodeFrame(ev, c) ==
  LET bi == Take(ev, c, 5)
      c1 == c + 5
      a == Tok(ev, c1 + 1)
      rsize == user_regs_struct_size(a)
      regs == Take(ev, c1 + 1, rsize)
      c2 == c1 + 1 + rsize
      fmt == Tok(ev, c2 + 1)
      nbytes == Tok(ev, c2 + 2)
      c3 == c2 + 2
      data == IF nbytes > 0 THEN Take(ev, c3, nbytes) ELSE <<>>
      c4 == IF nbytes > 0 THEN c3 + nbytes ELSE c3
      basic == [time |-> bi[1], tid |-> bi[2], ev |-> bi[3], ticks |-> bi[4],
                monotonic_sec |-> bi[5]]
  IN IF ~has_exec_info(bi[3])
       THEN [frame |-> basic @@ NoExecInfo, cur |-> c1, fatal |-> FALSE]
       ELSE [frame |-> basic @@ [arch |-> a, regs |-> regs, format |-> fmt,
                                 extra |-> data],
             cur |-> c4,
             fatal |-> \/ a \notin {x86, x86_64}
                       \/ nbytes > 0 /\ ~set_to_raw_data(fmt, data)
                       \/ nbytes <= 0 /\ fmt # FormatNONE]

\* TraceStream::tick_time
tick_time(t) == t + 1

\* read_frame on reader x: decode, tick the clock, assert the times agree
DoReadFrame(x) ==
  LET d == DecodeFrame(streams.events, x.cur.events)
      t == tick_time(x.time)
  IN [rdr |-> [x EXCEPT !.cur.events = d.cur,
                        !.time = IF d.fatal THEN x.time ELSE t,
                        !.failed = d.fatal \/ t # d.frame.time],
      frame |-> d.frame]

Live(r) == wstate = "closed" /\ rd[r].active /\ ~rd[r].failed

\* reader r becomes x; a reader that shares r's decoders sees their cursors
Store(r, x) ==
  [q \in Readers |->
     IF q = r THEN x
     ELSE IF rd[q].active /\ rd[q].dec = rd[r].dec
       THEN [rd[q] EXCEPT !.cur = x.cur]
       ELSE rd[q]]

\* what an operation of reader r leaves in `last`
Op(name, r, fields) ==
  [op |-> name, rdr |-> r, pre |-> rd[r]] @@ fields

\* positions of '\n' in the version file
NewlinePositions(file) == {i \in 1..Len(file) : file[i] = "\n"}

MinOf(S) == CHOOSE m \in S : \A x \in S : m <= x

\* faulty variant: the newline is appended to version_str before the test
VersionLine_with_newline(file) ==
  SubSeq(file, 1, MinOf(NewlinePositions(file)))

\* version_str: the characters read one at a time before the first '\n'
VersionLine(file) == SubSeq(file, 1, MinOf(NewlinePositions(file)) - 1)

\* the NUL character
NUL == "\\0"

\* str.c_str() as a C string: the characters before the first NUL
c_str(str) ==
  LET nuls == {i \in 1..Len(str) : str[i] = NUL}
  IN IF nuls = {} THEN str ELSE SubSeq(str, 1, MinOf(nuls) - 1)

\* isspace and isdigit
IsSpace(ch) == ch \in {" ", "\t", "\n", "\r", "\f"}
IsDigit(ch) == ch \in {Digit(d) : d \in 0..9}
DigitValue(ch) == CHOOSE d \in 0..9 : Digit(d) = ch

\* the first position from `from` on whose character does not satisfy the
\* test given as the set of positions that do
FirstOutside(str, from, inside) ==
  MinOf({i \in from..(Len(str) + 1) : i \notin inside})

\* the value of a string of decimal digits
RECURSIVE DecimalValue(_)
DecimalValue(digits) ==
  IF digits = <<>> THEN 0
  ELSE 10 * DecimalValue(SubSeq(digits, 1, Len(digits) - 1))
       + DigitValue(digits[Len(digits)])

\* strtol(nptr, &end_ptr, 10): white space, an optional sign, decimal digits.
\* end is the position end_ptr points at (Len(nptr) + 1 is the final NUL);
\* without digits nothing is converted and end_ptr is nptr.  Values stay
\* far below LONG_MAX.
strtol(nptr) ==
  LET i0 == FirstOutside(nptr, 1, {i \in 1..Len(nptr) : IsSpace(nptr[i])})
      signed == i0 <= Len(nptr) /\ nptr[i0] \in {"+", "-"}
      d0 == IF signed THEN i0 + 1 ELSE i0
      dend == FirstOutside(nptr, d0, {i \in 1..Len(nptr) : IsDigit(nptr[i])})
      magnitude == DecimalValue(SubSeq(nptr, d0, dend - 1))
  IN IF dend = d0 THEN [value |-> 0, end |-> 1]
     ELSE [value |-> IF signed /\ nptr[i0] = "-" THEN 0 - magnitude
                     ELSE magnitude,
           end |-> dend]

\* The version handshake of the reader's constructor on an open version
\* file: "FATAL" when no newline is found or strtol leaves characters,
\* "EX_DATAERR" when the version is not TRACE_VERSION, "ok" otherwise.
ReadVersion(file) ==
  IF NewlinePositions(file) = {} THEN "FATAL"
  ELSE LET version_str == c_str(VersionLine(file))
           parsed == strtol(version_str)
       IN IF parsed.end <= Len(version_str) THEN "FATAL"
          ELSE IF TRACE_VERSION # parsed.value THEN "EX_DATAERR"
          ELSE "ok"

\* the header fields the constructor exposes, decoded from what follows
\* the version line
ReadHeader(file) ==
  LET h == SubSeq(file, MinOf(NewlinePositions(file)) + 1, Len(file))
  IN [bind_to_cpu |-> DigitValue(h[1]),
      trace_uses_cpuid_faulting |-> h[2] = "1"]

\* the reader the constructor leaves
FreshReader ==
  [NoReader EXCEPT !.active = TRUE, !.dec = 1, !.time = ReaderInitialTime]

\* TraceReader::TraceReader(dir) on the closed trace.  When the handshake
\* fails the process ends and no reader exists.
TraceReader_ctor ==
  /\ wstate = "closed"
  /\ ~rd[1].active
  /\ LET outcome == ReadVersion(version_file) IN
       IF outcome = "ok"
         THEN /\ rd' = [rd EXCEPT ![1] = FreshReader]
              /\ last' = [op |-> "TraceReader", rdr |-> 1, outcome |-> outcome,
                          header |-> ReadHeader(version_file)]
         ELSE /\ rd' = [rd EXCEPT ![1] = [NoReader EXCEPT !.failed = TRUE]]
              /\ last' = [op |-> "TraceReader", rdr |-> 1, outcome |-> outcome]
  /\ UNCHANGED writerVars

read_frame(r) ==
  /\ Live(r)
  /\ ~at_end(streams.events, rd[r].cur.events)
  /\ LET res == DoReadFrame(rd[r]) IN
       /\ rd' = Store(r, [res.rdr EXCEPT !.n.events = @ + 1])
       /\ last' = Op("read_frame", r, [frame |-> res.frame])
  /\ UNCHANGED writerVars

\* TraceFrame(): the frame peek_frame returns at the end of EVENTS
EmptyFrame == [time |-> 0, tid |-> 0, ev |-> EvSched, ticks |-> 0,
               monotonic_sec |-> 0] @@ NoExecInfo

\* faulty variant: peek_frame restores the cursor and forgets the clock
RestoreAfterPeek_cursor_only(x, saved_state, saved_time) ==
  [x EXCEPT !.cur.events = saved_state]

\* faulty variant: peek_frame restores the clock and forgets the cursor
RestoreAfterPeek_time_only(x, saved_state, saved_time) ==
  [x EXCEPT !.time = saved_time]

\* the end of peek_frame: events.restore_state(); global_time = saved_time
RestoreAfterPeek(x, saved_state, saved_time) ==
  [x EXCEPT !.cur.events = saved_state, !.time = saved_time]

peek_frame(r) ==
  /\ Live(r)
  /\ LET x == rd[r]
         saved_state == x.cur.events
         saved_time == x.time
         ended == at_end(streams.events, x.cur.events)
         res == IF ended THEN [rdr |-> x, frame |-> EmptyFrame]
                         ELSE DoReadFrame(x)
     IN
       /\ rd' = Store(r, IF res.rdr.failed THEN res.rdr
                         ELSE RestoreAfterPeek(res.rdr, saved_state, saved_time))
       /\ last' = Op("peek_frame", r,
                     IF res.rdr.failed THEN <<>> ELSE [frame |-> res.frame])
  /\ UNCHANGED writerVars

\* faulty variant: the header record is consumed, its payload is not
DoReadRawData_header_only(x) ==
  LET h == Take(streams.data_header, x.cur.data_header, 4)
      time == h[1]
      num_bytes == h[4]
  IN [rdr |-> [x EXCEPT !.cur.data_header = @ + 4,
                        !.n.data_header = @ + 1,
                        !.failed = time # x.time],
      d |-> [time |-> time, rec_tid |-> h[2], addr |-> h[3],
             data |-> Take(streams.data, x.cur.data, num_bytes)]]

\* read_raw_data on reader x: the header record is read, the assertion
\* time == global_time is made, and then num_bytes are read from RAW_DATA
DoReadRawData(x) ==
  LET h == Take(streams.data_header, x.cur.data_header, 4)
      time == h[1]
      num_bytes == h[4]
  IN [rdr |-> [x EXCEPT !.cur.data_header = @ + 4,
                        !.cur.data = IF time = x.time THEN @ + num_bytes ELSE @,
                        !.n.data_header = @ + 1,
                        !.failed = time # x.time],
      d |-> [time |-> time, rec_tid |-> h[2], addr |-> h[3],
             data |-> Take(streams.data, x.cur.data, num_bytes)]]

read_raw_data(r) ==
  /\ Live(r)
  /\ ~at_end(streams.data_header, rd[r].cur.data_header)
  /\ LET res == DoReadRawData(rd[r]) IN
       /\ rd' = Store(r, res.rdr)
       /\ last' = Op("read_raw_data", r,
                     IF res.rdr.failed THEN <<>> ELSE [d |-> res.d])
  /\ UNCHANGED writerVars

\* faulty variant: a header of the frame's own time is taken for a later one
ForFrame_ge(ended, time, frame_time) ==
  IF ended THEN "false"
  ELSE IF ~(time >= frame_time) THEN "assert"
  ELSE IF time >= frame_time THEN "false"
  ELSE "read"

\* The look-ahead of read_raw_data_for_frame and read_generic_for_frame on
\* the time of the next header: "false" (return false), "assert" (the
\* assertion time >= frame.time() fails) or "read" (go on to read the record).
ForFrame(ended, time, frame_time) ==
  IF ended THEN "false"
  ELSE IF ~(time >= frame_time) THEN "assert"
  ELSE IF time > frame_time THEN "false"
  ELSE "read"

read_raw_data_for_frame(r, frame) ==
  /\ Live(r)
  /\ LET x == rd[r]
         time == Tok(streams.data_header, x.cur.data_header + 1)
         look == ForFrame(at_end(streams.data_header, x.cur.data_header), time, frame.time)
     IN
       CASE look = "false" ->
              /\ rd' = rd
              /\ last' = Op("read_raw_data_for_frame", r,
                            [frame |-> frame, ret |-> FALSE])
         [] look = "assert" ->
              /\ rd' = [rd EXCEPT ![r].failed = TRUE]
              /\ last' = Op("read_raw_data_for_frame", r, [frame |-> frame])
         [] look = "read" ->
            LET res == DoReadRawData(x) IN
              /\ rd' = Store(r, res.rdr)
              /\ last' = Op("read_raw_data_for_frame", r,
                            IF res.rdr.failed THEN [frame |-> frame]
                            ELSE [frame |-> frame, ret |-> TRUE, d |-> res.d])
  /\ UNCHANGED writerVars

\* read_generic on reader x
DoReadGeneric(x) ==
  LET h == Take(streams.generic, x.cur.generic, 2)
      time == h[1]
      num_bytes == h[2]
  IN [rdr |-> [x EXCEPT !.cur.generic = @ + 2 + num_bytes,
                        !.n.generic = @ + 1,
                        !.failed = time # x.time],
      d |-> [time |-> time,
             data |-> Take(streams.generic, x.cur.generic + 2, num_bytes)]]

read_generic(r) ==
  /\ Live(r)
  /\ ~at_end(streams.generic, rd[r].cur.generic)
  /\ LET res == DoReadGeneric(rd[r]) IN
       /\ rd' = Store(r, res.rdr)
       /\ last' = Op("read_generic", r,
                     IF res.rdr.failed THEN <<>> ELSE [d |-> res.d])
  /\ UNCHANGED writerVars

read_generic_for_frame(r, frame) ==
  /\ Live(r)
  /\ LET x == rd[r]
         time == Tok(streams.generic, x.cur.generic + 1)
         look == ForFrame(at_end(streams.generic, x.cur.generic), time, frame.time)
     IN
       CASE look = "false" ->
              /\ rd' = rd
              /\ last' = Op("read_generic_for_frame", r,
                            [frame |-> frame, ret |-> FALSE])
         [] look = "assert" ->
              /\ rd' = [rd EXCEPT ![r].failed = TRUE]
              /\ last' = Op("read_generic_for_frame", r, [frame |-> frame])
         [] look = "read" ->
            LET res == DoReadGeneric(x) IN
              /\ rd' = Store(r, res.rdr)
              /\ last' = Op("read_generic_for_frame", r,
                            IF res.rdr.failed THEN [frame |-> frame]
                            ELSE [frame |-> frame, ret |-> TRUE, d |-> res.d])
  /\ UNCHANGED writerVars

\* TraceTaskEvent(): the sentinel read_task_event returns at the end of TASKS
NoTaskEvent == [type |-> "NONE", tid |-> 0, parent_tid |-> 0, own_ns_tid |-> 0,
                clone_flags |-> 0, file_name |-> <<>>, cmd_line |-> <<>>,
                exit_status |-> 0]

\* i32_to_tid is FATAL for tid <= 0
i32_to_tid_fatal(tid) == tid <= 0

\* faulty variant: own_ns_tid is filled from the parent's tid
DecodeTaskEvent_parent_twice(task) ==
  [type |-> task.which,
   tid |-> task.tid,
   parent_tid |-> IF task.which = "CLONE" THEN task.parentTid ELSE 0,
   own_ns_tid |-> IF task.which = "CLONE" THEN task.parentTid ELSE 0,
   clone_flags |-> IF task.which = "CLONE" THEN task.flags ELSE 0,
   file_name |-> IF task.which = "EXEC" THEN data_to_str(task.fileName)
                 ELSE <<>>,
   cmd_line |-> IF task.which = "EXEC"
                  THEN [i \in 1..Len(task.cmdLine) |-> data_to_str(task.cmdLine[i])]
                  ELSE <<>>,
   exit_status |-> IF task.which = "EXIT" THEN task.exitStatus ELSE 0]

\* the TraceTaskEvent read_task_event fills from message task
DecodeTaskEvent(task) ==
  [type |-> task.which,
   tid |-> task.tid,
   parent_tid |-> IF task.which = "CLONE" THEN task.parentTid ELSE 0,
   own_ns_tid |-> IF task.which = "CLONE" THEN task.ownNsTid ELSE 0,
   clone_flags |-> IF task.which = "CLONE" THEN task.flags ELSE 0,
   file_name |-> IF task.which = "EXEC" THEN data_to_str(task.fileName)
                 ELSE <<>>,
   cmd_line |-> IF task.which = "EXEC"
                  THEN [i \in 1..Len(task.cmdLine) |-> data_to_str(task.cmdLine[i])]
                  ELSE <<>>,
   exit_status |-> IF task.which = "EXIT" THEN task.exitStatus ELSE 0]

read_task_event(r) ==
  /\ Live(r)
  /\ LET x == rd[r] IN
       IF at_end(streams.tasks, x.cur.tasks)
         THEN /\ rd' = rd
              /\ last' = Op("read_task_event", r, [event |-> NoTaskEvent])
         ELSE LET task == streams.tasks[x.cur.tasks + 1]
                  fatal == \/ i32_to_tid_fatal(task.tid)
                           \/ /\ task.which = "CLONE"
                              /\ \/ i32_to_tid_fatal(task.parentTid)
                                 \/ i32_to_tid_fatal(task.ownNsTid)
                           \/ task.which \notin {"CLONE", "EXEC", "EXIT"}
              IN /\ rd' = Store(r, [x EXCEPT !.cur.tasks = @ + 1,
                                                !.n.tasks = @ + 1,
                                                !.failed = fatal])
                 /\ last' = Op("read_task_event", r,
                               IF fatal THEN <<>>
                               ELSE [event |-> DecodeTaskEvent(task)])
  /\ UNCHANGED writerVars

\* KernelMapping()
EmptyMapping == [start |-> 0, end |-> 0, fsname |-> <<>>, device |-> 0,
                 inode |-> 0, prot |-> 0, flags |-> 0, file_offset_bytes |-> 0]

\* the KernelMapping read_mapped_region returns for message map
DecodeMapping(map) ==
  [start |-> map.start, end |-> map.end, fsname |-> data_to_str(map.fsname),
   device |-> map.device, inode |-> map.inode, prot |-> map.prot,
   flags |-> map.flags, file_offset_bytes |-> map.fileOffsetBytes]

\* a stat block was recorded
has_stat_buf(map) ==
  map.statMode # 0 \/ map.statUid # 0 \/ map.statGid # 0 \/ map.statMTime # 0

\* the backing file's name as read_mapped_region resolves it
ResolveBacking(backing_file_name) ==
  IF Len(backing_file_name) = 0 \/ backing_file_name[1] # "/"
    THEN dir \o <<"/">> \o backing_file_name
    ELSE backing_file_name

\* faulty variant: a clone-named backing file is validated as well
MustStat_clones_too(map, validate) ==
  /\ map.source = "File"
  /\ validate = "VALIDATE"
  /\ has_stat_buf(map)

\* read_mapped_region stats the backing file
MustStat(map, validate) ==
  /\ map.source = "File"
  /\ ~StartsWith(data_to_str(map.backingFileName), clone_prefix)
  /\ validate = "VALIDATE"
  /\ has_stat_buf(map)

\* faulty variant: the ZERO case falls through to the TRACE case
MappedDataOf_fallthrough(map) ==
  [time |-> map.frameTime,
   source |-> CASE map.source \in {"Zero", "Trace"} -> "SOURCE_TRACE"
                [] map.source = "File" -> "SOURCE_FILE"
                [] OTHER -> "unknown",
   file_name |-> IF map.source = "File"
                   THEN ResolveBacking(data_to_str(map.backingFileName))
                   ELSE <<>>,
   data_offset_bytes |-> IF map.source = "File" THEN map.fileOffsetBytes ELSE 0,
   file_size_bytes |-> map.statSize]

\* The MappedData read_mapped_region fills from message map.
MappedDataOf(map) ==
  [time |-> map.frameTime,
   source |-> CASE map.source = "Zero" -> "SOURCE_ZERO"
                [] map.source = "Trace" -> "SOURCE_TRACE"
                [] map.source = "File" -> "SOURCE_FILE"
                [] OTHER -> "unknown",
   file_name |-> IF map.source = "File"
                   THEN ResolveBacking(data_to_str(map.backingFileName))
                   ELSE <<>>,
   data_offset_bytes |-> IF map.source = "File" THEN map.fileOffsetBytes ELSE 0,
   file_size_bytes |-> map.statSize]

\* What stat() of the backing file stores in its struct stat.  backing_stat
\* is "fail" (stat() fails), "same" (the file has the recorded metadata) or
\* the name of the one field in which the file differs from the record.
BackingStat(map, backing_stat) ==
  LET recorded == [st_dev |-> map.device, st_ino |-> map.inode,
                   st_mode |-> map.statMode, st_uid |-> map.statUid,
                   st_gid |-> map.statGid, st_size |-> map.statSize,
                   st_mtime |-> map.statMTime]
  IN IF backing_stat \in DOMAIN recorded
       THEN [recorded EXCEPT ![backing_stat] = @ + 1]
       ELSE recorded

\* the comparison that makes read_mapped_region log "Metadata of ... changed"
MetadataChanged(map, st) ==
  \/ st.st_ino # map.inode
  \/ st.st_mode # map.statMode
  \/ st.st_uid # map.statUid
  \/ st.st_gid # map.statGid
  \/ st.st_size # map.statSize
  \/ st.st_mtime # map.statMTime

\* a FATAL() of read_mapped_region while it fills the MappedData
MappedDataFatal(map, validate, backing_stat) ==
  \/ map.frameTime <= 0
  \/ map.source \notin {"Zero", "Trace", "File"}
  \/ /\ map.source = "File"
     /\ \/ map.statSize < 0
        \/ MustStat(map, validate) /\ backing_stat = "fail"
        \/ map.fileOffsetBytes < 0

\* faulty variant: the record's time is compared whatever the constraint
WrongTime_always(time_constraint, frame_time, global_time) ==
  frame_time # global_time

\* time_constraint == CURRENT_TIME_ONLY and map.getFrameTime() != global_time
WrongTime(time_constraint, frame_time, global_time) ==
  time_constraint = "CURRENT_TIME_ONLY" /\ frame_time # global_time

\* has_data, has_found: the caller passes non-null data, found pointers
read_mapped_region(r, has_data, has_found, validate, time_constraint, backing_stat) ==
  /\ Live(r)
  /\ LET x == rd[r]
         args == [validate |-> validate, time_constraint |-> time_constraint,
                  has_data |-> has_data, has_found |-> has_found,
                  backing_stat |-> backing_stat]
     IN
       IF at_end(streams.mmaps, x.cur.mmaps)
         THEN /\ rd' = rd
              /\ last' = Op("read_mapped_region", r,
                            args @@ [km |-> EmptyMapping, found |-> FALSE])
         ELSE LET saved_state == x.cur.mmaps
                  map == streams.mmaps[x.cur.mmaps + 1]
                  fatal == has_data /\ MappedDataFatal(map, validate, backing_stat)
              IN
                IF WrongTime(time_constraint, map.frameTime, x.time)
                  THEN /\ rd' = Store(r, [x EXCEPT !.cur.mmaps = saved_state])
                       /\ last' = Op("read_mapped_region", r,
                                     args @@ [km |-> EmptyMapping,
                                              found |-> FALSE])
                  ELSE /\ rd' = Store(r, [x EXCEPT !.cur.mmaps = @ + 1,
                                                     !.n.mmaps = @ + 1,
                                                     !.failed = fatal])
                       /\ last' = Op("read_mapped_region", r,
                            IF fatal THEN args
                            ELSE args @@
                              [km |-> DecodeMapping(map),
                               found |-> TRUE,
                               data |-> IF has_data THEN MappedDataOf(map)
                                        ELSE <<>>,
                               warned |-> /\ has_data
                                          /\ MustStat(map, validate)
                                          /\ MetadataChanged(map,
                                               BackingStat(map, backing_stat))])
  /\ UNCHANGED writerVars

\* faulty variant: the decoders are rewound and the clock is left alone
Rewound_keep_time(x) ==
  [x EXCEPT !.cur = [s \in Substreams |-> 0],
            !.n = ZeroCursors]

\* reader x after rewind(): every substream's reader rewound, global_time = 0
Rewound(x) ==
  [x EXCEPT !.cur = [s \in Substreams |-> 0],
            !.n = ZeroCursors,
            !.time = 0]

rewind(r) ==
  /\ Live(r)
  /\ rd' = Store(r, Rewound(rd[r]))
  /\ last' = Op("rewind", r, <<>>)
  /\ UNCHANGED writerVars

\* faulty variant: the copy shares the CompressedReader objects of the original
CopyReader_shared(other, new_dec) ==
  [active |-> TRUE, failed |-> FALSE,
   time |-> other.time,
   cur |-> [s \in Substreams |-> other.cur[s]],
   dec |-> other.dec,
   n |-> other.n]

\* TraceReader::TraceReader(const TraceReader& other): the new reader, with
\* other's clock and a new CompressedReader, copied from other's, per substream
CopyReader(other, new_dec) ==
  [active |-> TRUE, failed |-> FALSE,
   time |-> other.time,
   cur |-> [s \in Substreams |-> other.cur[s]],
   dec |-> new_dec,
   n |-> other.n]

\* reader 2 is copy-constructed from reader 1
TraceReader_copy ==
  /\ Live(1)
  /\ ~rd[2].active
  /\ rd' = [rd EXCEPT ![2] = CopyReader(rd[1], 2)]
  /\ last' = [op |-> "copy", rdr |-> 2, pre |-> rd[1]]
  /\ UNCHANGED writerVars

close ==
  /\ wstate = "open"
  /\ wstate' = "closed"
  /\ last' = [op |-> "close"]
  /\ UNCHANGED <<wtime, mmap_count, files_assumed_immutable, trace_files,
                 streams, W, rd>>
  /\ UNCHANGED ctorVars

(***************************************************************************)
(* The state after the TraceWriter's constructor, with no reader yet.      *)
(***************************************************************************)
\* TraceWriter::TraceWriter of a build whose TRACE_VERSION is trace_version;
\* ioctl_ok is the outcome of the clone-range ioctl of the probe
TraceWriter_ctor(trace_version, bind_to_cpu, has_cpuid_faulting, ioctl_ok) ==
  LET probe == ProbeCloning({version_name}, ioctl_ok) IN
  /\ wstate = "open"
  /\ wtime = WriterInitialTime
  /\ mmap_count = 0
  /\ files_assumed_immutable = {}
  /\ trace_files = probe.files
  /\ supports_file_data_cloning_ = probe.supports
  /\ version_file =
       VersionFile(trace_version, HeaderBytes(bind_to_cpu, has_cpuid_faulting))
  /\ streams = [events |-> <<>>, data_header |-> <<>>, data |-> <<>>,
                mmaps |-> <<>>, tasks |-> <<>>, generic |-> <<>>]
  /\ W = [events |-> <<>>, raw |-> <<>>, generic |-> <<>>, tasks |-> <<>>,
          mmaps |-> <<>>]
  /\ rd = [r \in Readers |-> NoReader]
  /\ last = [op |-> "TraceWriter", trace_version |-> trace_version,
             ioctl_ok |-> ioctl_ok]

\* no recorder is setting up a directory
NoRecorders ==
  /\ fs = RootOnly
  /\ pr = [p \in Recorders |-> IdleRecorder]

Init == TraceWriter_ctor(TRACE_VERSION, 0, FALSE, FALSE) /\ NoRecorders

(***************************************************************************)
(* Inputs.                                                                 *)
(***************************************************************************)
SchedFrame(t) ==
  [time |-> t, tid |-> 42, ev |-> EvSched, ticks |-> 0, monotonic_sec |-> 0]
    @@ NoExecInfo

SyscallFrame32(t) ==
  [time |-> t, tid |-> 42, ev |-> EvSyscall, ticks |-> 5, monotonic_sec |-> 3,
   arch |-> x86, regs |-> <<11>>, format |-> FormatNONE, extra |-> <<>>]

SyscallFrame64(t) ==
  [time |-> t, tid |-> 43, ev |-> EvSyscall, ticks |-> 6, monotonic_sec |-> 4,
   arch |-> x86_64, regs |-> <<21, 22>>, format |-> FormatXSAVE,
   extra |-> <<9>>]

\* frames stamped with the writer's clock, and one stamped with a later time
FrameInputs ==
  {SchedFrame(wtime), SyscallFrame32(wtime), SyscallFrame64(wtime),
   SchedFrame(wtime + 1)}

RawInputs == {<<>>, <<97, 98, 99>>}

GenericInputs == {<<5, 6>>}

CloneEvent == [NoTaskEvent EXCEPT !.type = "CLONE", !.tid = 8,
                                  !.parent_tid = 7, !.own_ns_tid = 2,
                                  !.clone_flags = 3]
ExecEvent == [NoTaskEvent EXCEPT !.type = "EXEC", !.tid = 8,
                                 !.file_name = <<"/", "x">>,
                                 !.cmd_line = <<<<"x">>, <<"a", "\\0", "b">>>>]
ExitEvent == [NoTaskEvent EXCEPT !.type = "EXIT", !.tid = 8,
                                 !.exit_status = 9]

TaskInputs == {ExecEvent}

LibA == <<"/", "l", "i", "b", "/", "a">>

SysV1 == SYSV \o <<"1">>

Mapping(fsname, inode, flags) ==
  [start |-> 4096, end |-> 8192, fsname |-> fsname, device |-> 1,
   inode |-> inode, prot |-> 5, flags |-> flags, file_offset_bytes |-> 0]

Stat(dev, ino) ==
  [st_dev |-> dev, st_ino |-> ino, st_mode |-> 33188, st_uid |-> 1000,
   st_gid |-> 100, st_size |-> 12, st_mtime |-> 77]

Env(cloning, c5, c7, link, copy) ==
  [use_file_cloning |-> cloning, clone5 |-> c5, clone7 |-> c7, link |-> link,
   should_copy |-> copy]

Frames == {W.events[i] : i \in 1..Len(W.events)}

\* a file and a SysV segment mapped shared as rr's buffer, their stat, and
\* a session without file cloning in which link() fails
BufferMappings == {Mapping(LibA, 3, MAP_SHARED), Mapping(SysV1, 3, MAP_SHARED)}
BufferMappingOfFile == Mapping(LibA, 3, MAP_SHARED)
BufferStat == Stat(1, 3)
NoCloningEnv == Env(FALSE, FALSE, FALSE, FALSE, FALSE)

WriterNext ==
  \/ \E frame \in FrameInputs : write_frame(frame)
  \/ \E d \in RawInputs : write_raw(7, d, 4096)
  \/ \E d \in GenericInputs : write_generic(d)
  \/ \E event \in TaskInputs : write_task_event(event)
  \/ \E km \in BufferMappings :
       write_mapped_region(km, BufferStat, "RR_BUFFER_MAPPING", NoCloningEnv)
  \/ close

ReaderNext(r) ==
  \/ read_frame(r)
  \/ peek_frame(r)
  \/ read_raw_data(r)
  \/ \E frame \in Frames : read_raw_data_for_frame(r, frame)
  \/ read_generic(r)
  \/ \E frame \in Frames : read_generic_for_frame(r, frame)
  \/ read_task_event(r)
  \/ \E tc \in {"ANY_TIME", "CURRENT_TIME_ONLY"} :
       read_mapped_region(r, TRUE, TRUE, "VALIDATE", tc, "same")

Next ==
  \/ WriterNext
  \/ TraceReader_ctor
  \/ ReaderNext(1)

Spec == Init /\ [][Next]_vars

(***************************************************************************)
(* SpecCopy: a trace of simple records read by a reader and by its copy.   *)
(***************************************************************************)
CopyWriterNext ==
  \/ write_frame(SchedFrame(wtime))
  \/ write_raw(7, <<97>>, 4096)
  \/ write_generic(<<5>>)
  \/ write_task_event(ExitEvent)
  \/ write_mapped_region(BufferMappingOfFile, BufferStat, "RR_BUFFER_MAPPING",
                         NoCloningEnv)
  \/ close

CopyReaderNext(r) ==
  \/ read_frame(r)
  \/ peek_frame(r)
  \/ read_raw_data(r)
  \/ read_generic(r)
  \/ read_task_event(r)
  \/ read_mapped_region(r, TRUE, TRUE, "DONT_VALIDATE", "ANY_TIME", "same")
  \/ rewind(r)

NextCopy ==
  \/ CopyWriterNext
  \/ TraceReader_ctor
  \/ TraceReader_copy
  \/ \E r \in Readers : CopyReaderNext(r)

SpecCopy == Init /\ [][NextCopy]_vars

(***************************************************************************)
(* SpecMmap: a writer that calls write_mapped_region over its inputs.       *)
(***************************************************************************)
Origins == {"SYSCALL_MAPPING", "RR_BUFFER_MAPPING", "REMAP_MAPPING",
            "PATCH_MAPPING", "EXEC_MAPPING"}

\* mappings: SysV shared memory, /dev/zero (deleted), a file mapped shared
\* and private, and a mapping with inode 0, each with the stat of its file
MappingInputs ==
  {<<Mapping(SysV1, 3, MAP_SHARED), Stat(1, 3)>>,
   <<Mapping(DevZeroDeleted, 4, MAP_SHARED), Stat(1, 4)>>,
   <<Mapping(LibA, 5, MAP_SHARED), Stat(1, 5)>>,
   <<Mapping(LibA, 5, MAP_PRIVATE), Stat(1, 5)>>,
   <<Mapping(LibA, 0, MAP_SHARED), Stat(1, 0)>>}

EnvInputs ==
  {Env(cloning, c5, c7, link, copy) :
     cloning \in BOOLEAN, c5 \in BOOLEAN, c7 \in BOOLEAN, link \in BOOLEAN,
     copy \in BOOLEAN}

NextMmap ==
  /\ Len(W.mmaps) < MaxMmaps
  /\ \E m \in MappingInputs, origin \in Origins, env \in EnvInputs :
       write_mapped_region(m[1], m[2], origin, env)

SpecMmap == Init /\ [][NextMmap]_vars

(***************************************************************************)
(* SpecCtor: traces recorded by builds of several format versions, with    *)
(* either outcome of the cloning probe, and the reader's handshake.        *)
(***************************************************************************)
\* TRACE_VERSION of the recording build
VersionInputs == {1, 84, TRACE_VERSION, 86, 850}

\* version files written by hand: another version without a header, a
\* version followed by a letter, no newline, leading white space, an empty
\* version line, a NUL inside the version line
TamperedFiles ==
  {<<"1", "\n">>,
   <<"8", "5", "x", "\n", "0", "0">>,
   <<"8", "5">>,
   <<" ", "8", "5", "\n", "0", "0">>,
   <<"\n", "0", "0">>,
   <<"8", "5", NUL, "x", "\n", "0", "0">>}

InitCtor ==
  \E trace_version \in VersionInputs, bind_to_cpu \in {0, 2},
     has_cpuid_faulting \in BOOLEAN, ioctl_ok \in BOOLEAN :
    /\ TraceWriter_ctor(trace_version, bind_to_cpu, has_cpuid_faulting, ioctl_ok)
    /\ NoRecorders

\* the version file of the closed trace is overwritten by hand
overwrite_version_file(file) ==
  /\ wstate = "closed"
  /\ ~rd[1].active /\ ~rd[1].failed
  /\ last.op # "overwrite_version_file"
  /\ version_file' = file
  /\ last' = [op |-> "overwrite_version_file"]
  /\ UNCHANGED <<wstate, wtime, mmap_count, files_assumed_immutable,
                 trace_files, supports_file_data_cloning_, streams, W, rd,
                 fs, pr>>

NextCtor ==
  \/ write_frame(SchedFrame(wtime))
  \/ write_raw(7, <<97>>, 4096)
  \/ close
  \/ \E file \in TamperedFiles : overwrite_version_file(file)
  \/ TraceReader_ctor
  \/ read_frame(1)
  \/ read_raw_data(1)

SpecCtor == InitCtor /\ [][NextCtor]_vars

(***************************************************************************)
(* SpecTasks: task events of every variant, written between frames.        *)
(***************************************************************************)
\* a CLONE event whose parent tid is not a tid
OrphanCloneEvent == [CloneEvent EXCEPT !.parent_tid = 0]

TaskEventInputs ==
  {CloneEvent, ExecEvent, ExitEvent, OrphanCloneEvent, NoTaskEvent}

NextTasks ==
  \/ write_frame(SchedFrame(wtime))
  \/ \E event \in TaskEventInputs : write_task_event(event)
  \/ close
  \/ TraceReader_ctor
  \/ read_frame(1)
  \/ read_task_event(1)

SpecTasks == Init /\ [][NextTasks]_vars

(***************************************************************************)
(* SpecWriter: the writer alone, over every write operation.               *)
(***************************************************************************)
SpecWriter == Init /\ [][WriterNext]_vars

(***************************************************************************)
(* SpecValidate: file mappings recorded with a clone, a hardlink or the     *)
(* original path as backing, with and without a stat block, and a reader    *)
(* that reads them against a backing file that is gone, unchanged or        *)
(* changed in one field.                                                    *)
(***************************************************************************)
\* a zeroed struct stat: no stat block is recorded
ZeroStat ==
  [st_dev |-> 0, st_ino |-> 0, st_mode |-> 0, st_uid |-> 0, st_gid |-> 0,
   st_size |-> 0, st_mtime |-> 0]

ValidateMappings ==
  {<<Mapping(LibA, 5, MAP_SHARED), Stat(1, 5)>>,
   <<Mapping(LibA, 5, MAP_SHARED), ZeroStat>>,
   <<Mapping(DevZeroDeleted, 4, MAP_SHARED), Stat(1, 4)>>}

\* the rule-7 clone succeeds; the clone fails and link() succeeds; both fail
ValidateEnvs ==
  {Env(TRUE, FALSE, TRUE, FALSE, FALSE),
   Env(FALSE, FALSE, FALSE, TRUE, FALSE),
   Env(FALSE, FALSE, FALSE, FALSE, FALSE)}

BackingStatInputs ==
  {"fail", "same", "st_dev", "st_ino", "st_mode", "st_uid", "st_gid",
   "st_size", "st_mtime"}

NextValidate ==
  \/ /\ Len(W.mmaps) < MaxMmaps
     /\ \E m \in ValidateMappings, env \in ValidateEnvs :
          write_mapped_region(m[1], m[2], "SYSCALL_MAPPING", env)
  \/ close
  \/ TraceReader_ctor
  \/ \E has_data \in BOOLEAN, validate \in {"VALIDATE", "DONT_VALIDATE"},
        backing_stat \in BackingStatInputs :
       read_mapped_region(1, has_data, TRUE, validate, "ANY_TIME", backing_stat)

SpecValidate == Init /\ [][NextValidate]_vars

(***************************************************************************)
(* SpecRecorders: recorder processes that run make_trace_dir and then      *)
(* make_latest_trace concurrently for the same executable under one trace  *)
(* root.  Every system call is one step.                                   *)
(***************************************************************************)
\* largest number of mkdir attempts of one make_trace_dir call explored
MaxNonce == 4

\* basename() of a path that does not end in '/'
basename(path) ==
  IF SlashPositions(path) # {}
    THEN SubSeq(path, MaxOf(SlashPositions(path)) + 1, Len(path))
    ELSE path

\* the name make_trace_dir builds from its nonce
TraceDirName(exe_path, nonce) ==
  TraceRoot \o <<"/">> \o basename(exe_path) \o <<"-">> \o sprintf_d(nonce)

\* latest_trace_symlink()
latest_trace_symlink ==
  TraceRoot \o <<"/", "l", "a", "t", "e", "s", "t", "-", "t", "r", "a", "c", "e">>

\* The result of mkdir(path) or symlink(.., path) on files: err when the
\* call fails for a reason of its own (err # "none"), "EEXIST" when the
\* path exists, "ok" when the entry is created.
CreateResult(files, path, err) ==
  IF err # "none" THEN err
  ELSE IF path \in DOMAIN files THEN "EEXIST"
  ELSE "ok"

\* faulty variant: the loop goes on after every failed mkdir
RetryMkdir_any_error(ret) == ret # "ok"

\* the condition of make_trace_dir's do-while: ret && EEXIST == errno
RetryMkdir(ret) == ret # "ok" /\ ret = "EEXIST"

\* one iteration of make_trace_dir's loop in recorder p
make_trace_dir(p, exe_path, err) ==
  /\ pr[p].pc \in {"idle", "mkdir"}
  /\ pr[p].nonce < MaxNonce
  /\ LET x == pr[p]
         path == TraceDirName(exe_path, x.nonce)
         ret == CreateResult(fs, path, err)
     IN
       /\ fs' = IF ret = "ok" THEN fs @@ (path :> Dir(TRUE)) ELSE fs
       /\ pr' = [pr EXCEPT ![p] =
                   [x EXCEPT !.nonce = @ + 1,
                             !.dir = path,
                             !.pre = IF x.pc = "idle" THEN DOMAIN fs ELSE @,
                             !.tried = Append(@, ret),
                             !.pc = IF RetryMkdir(ret) THEN "mkdir"
                                    ELSE IF ret # "ok" THEN "fatal"
                                    ELSE "bound"]]
  /\ last' = [op |-> "make_trace_dir"]
  /\ UNCHANGED <<wstate, wtime, mmap_count, files_assumed_immutable,
                 trace_files, supports_file_data_cloning_, version_file,
                 streams, W, rd>>

\* faulty variant: the link is left in place
unlink_nothing(files, path) == files

\* unlink(path): the entry is removed if there is one; the result is ignored
unlink(files, path) ==
  [q \in DOMAIN files \ {path} |-> files[q]]

\* faulty variant: a symlink call that finds the link in place is fatal
SymlinkFatal_on_exist(ret) == ret # "ok"

\* make_latest_trace's test ret < 0 && errno != EEXIST
SymlinkFatal(ret) == ret # "ok" /\ ret # "EEXIST"

\* make_latest_trace in recorder p, up to its unlink call
make_latest_trace_unlink(p) ==
  /\ pr[p].pc = "bound"
  /\ fs' = unlink(fs, latest_trace_symlink)
  /\ pr' = [pr EXCEPT ![p].pc = "symlink"]
  /\ last' = [op |-> "make_latest_trace_unlink"]
  /\ UNCHANGED <<wstate, wtime, mmap_count, files_assumed_immutable,
                 trace_files, supports_file_data_cloning_, version_file,
                 streams, W, rd>>

\* make_latest_trace in recorder p, from its symlink call on
make_latest_trace_symlink(p, err) ==
  /\ pr[p].pc = "symlink"
  /\ LET ret == CreateResult(fs, latest_trace_symlink, err)
         files == IF ret = "ok"
                    THEN fs @@ (latest_trace_symlink :> Symlink(pr[p].dir))
                    ELSE fs
     IN
       /\ fs' = files
       /\ pr' = [pr EXCEPT ![p].ret = ret,
                           ![p].saw = IF latest_trace_symlink \in DOMAIN files
                                        THEN files[latest_trace_symlink].target
                                        ELSE <<>>,
                           ![p].pc = IF SymlinkFatal(ret) THEN "fatal"
                                     ELSE "done"]
  /\ last' = [op |-> "make_latest_trace_symlink"]
  /\ UNCHANGED <<wstate, wtime, mmap_count, files_assumed_immutable,
                 trace_files, supports_file_data_cloning_, version_file,
                 streams, W, rd>>

\* the executable recorded and the errors a mkdir or symlink call may meet
ExePath == <<"/", "b", "i", "n", "/", "x">>
SyscallErrors == {"none", "EACCES"}

\* an older trace of another executable
OldTrace == TraceRoot \o <<"/", "y", "-", "0">>

\* trace roots: empty, or with earlier traces of the executable, each with
\* and without a latest-trace symlink to an older trace
RecorderFsInputs ==
  {RootOnly,
   RootOnly @@ (TraceDirName(ExePath, 0) :> Dir(TRUE)),
   RootOnly @@ (TraceDirName(ExePath, 0) :> Dir(TRUE))
            @@ (TraceDirName(ExePath, 1) :> Dir(TRUE)),
   RootOnly @@ (OldTrace :> Dir(TRUE))
            @@ (latest_trace_symlink :> Symlink(OldTrace)),
   RootOnly @@ (TraceDirName(ExePath, 0) :> Dir(TRUE))
            @@ (OldTrace :> Dir(TRUE))
            @@ (latest_trace_symlink :> Symlink(OldTrace))}

InitRecorders ==
  /\ TraceWriter_ctor(TRACE_VERSION, 0, FALSE, FALSE)
  /\ fs \in RecorderFsInputs
  /\ pr = [p \in Recorders |-> IdleRecorder]

NextRecorders ==
  \E p \in Recorders :
    \/ \E err \in SyscallErrors : make_trace_dir(p, ExePath, err)
    \/ make_latest_trace_unlink(p)
    \/ \E err \in SyscallErrors : make_latest_trace_symlink(p, err)

SpecRecorders == InitRecorders /\ [][NextRecorders]_vars

(***************************************************************************)
(* SpecEnsure: ensure_dir called once on a path, over file systems with    *)
(* directories, files and devices in the way, with a concurrent creator.   *)
(***************************************************************************)
\* d after the loop that removes trailing '/' characters
StripSlashes(dir_name) ==
  LET keep == {i \in 1..Len(dir_name) : dir_name[i] # "/"}
  IN IF keep = {} THEN <<>> ELSE SubSeq(dir_name, 1, MaxOf(keep))

\* the directories a path lies in
Ancestors(path) ==
  {SubSeq(path, 1, i - 1) : i \in {j \in SlashPositions(path) : j > 1}}

\* errno of stat(path), or "ok": a path through something that is not a
\* directory gives ENOTDIR, a missing path (and the empty path) ENOENT
stat_errno(files, path) ==
  IF path = <<>> THEN "ENOENT"
  ELSE IF \E a \in Ancestors(path) :
            a \in DOMAIN files /\ files[a].mode # S_IFDIR THEN "ENOTDIR"
  ELSE IF path \in DOMAIN files THEN "ok"
  ELSE "ENOENT"

\* S_IFDIR & st.st_mode, as a truth value
IsDirMode(st_mode) == (st_mode \div S_IFDIR) % 2 = 1

\* ensure_dir(dir, mode) on files.  race maps a path to the entry a
\* concurrent process creates there between this process's stat and mkdir;
\* err is the error mkdir meets by itself ("none": none).  The result is
\* the file system afterwards and whether a FATAL() ended the process.
RECURSIVE ensure_dir(_, _, _, _)
ensure_dir(files, dir_name, race, err) ==
  LET d == StripSlashes(dir_name)
      fatal == [files |-> files, fatal |-> TRUE]
      checked(fl) ==
        [files |-> fl,
         fatal |-> ~IsDirMode(fl[d].mode) \/ ~fl[d].writable]
  IN
  IF stat_errno(files, d) = "ok" THEN checked(files)
  ELSE IF stat_errno(files, d) # "ENOENT" THEN fatal
  ELSE IF SlashPositions(d) = {} \/ MaxOf(SlashPositions(d)) = 1 THEN fatal
  ELSE
    LET up == ensure_dir(files, SubSeq(d, 1, MaxOf(SlashPositions(d)) - 1),
                         race, err)
        raced == IF d \in DOMAIN race THEN up.files @@ (d :> race[d])
                 ELSE up.files
        ret == CreateResult(raced, d, err)
        made == IF ret = "ok" THEN raced @@ (d :> Dir(TRUE)) ELSE raced
    IN IF up.fatal THEN up
       ELSE IF ret # "ok" /\ ret # "EEXIST" THEN [files |-> raced, fatal |-> TRUE]
       ELSE IF stat_errno(made, d) # "ok" THEN [files |-> made, fatal |-> TRUE]
       ELSE checked(made)

\* a process calls ensure_dir(dir, mode)
ensure_dir_call(dir_name, race, err) ==
  /\ last.op # "ensure_dir"
  /\ LET res == ensure_dir(fs, dir_name, race, err) IN
       /\ fs' = res.files
       /\ last' = [op |-> "ensure_dir", dir |-> dir_name, race |-> race,
                   err |-> err, pre |-> fs, fatal |-> res.fatal]
  /\ UNCHANGED <<wstate, wtime, mmap_count, files_assumed_immutable,
                 trace_files, supports_file_data_cloning_, version_file,
                 streams, W, rd, pr>>

File == [mode |-> S_IFREG, writable |-> TRUE, target |-> <<>>]
BlockDevice == [mode |-> S_IFBLK, writable |-> TRUE, target |-> <<>>]

PathA == <<"/", "a">>
PathAB == <<"/", "a", "/", "b">>

\* the paths ensure_dir is called with: with and without trailing
\* slashes, "/" itself, a relative name, a path below a missing /m
EnsureDirInputs ==
  {PathA, PathAB, PathAB \o <<"/", "/">>, PathAB \o <<"/", "c">>, <<"/">>, <<"b">>,
   <<"/", "m", "/", "b">>}

\* what exists beforehand
EnsureFsInputs ==
  {<<>>,
   (PathA :> Dir(TRUE)),
   (PathA :> Dir(FALSE)),
   (PathA :> File),
   (PathA :> BlockDevice),
   (PathA :> Dir(TRUE)) @@ (PathAB :> Dir(TRUE)),
   (PathA :> Dir(TRUE)) @@ (PathAB :> Dir(FALSE)),
   (PathA :> Dir(TRUE)) @@ (PathAB :> File),
   (PathA :> Dir(TRUE)) @@ (PathAB :> BlockDevice)}

\* what a concurrent process creates: nothing, /a/b as a directory, /a/b as
\* a file
RaceInputs ==
  {<<>>, (PathAB :> Dir(TRUE)), (PathAB :> File)}

InitEnsure ==
  /\ TraceWriter_ctor(TRACE_VERSION, 0, FALSE, FALSE)
  /\ fs \in EnsureFsInputs
  /\ pr = [p \in Recorders |-> IdleRecorder]

NextEnsure ==
  \E dir_name \in EnsureDirInputs, race \in RaceInputs, err \in SyscallErrors :
    ensure_dir_call(dir_name, race, err)

SpecEnsure == InitEnsure /\ [][NextEnsure]_vars

(***************************************************************************)
(* SpecRoot: make_trace_dir from the environment: the trace root is        *)
(* resolved from _RR_TRACE_DIR, XDG_DATA_HOME and HOME, the default root   *)
(* is ensured, and the trace directory is made in the resolved root.       *)
(***************************************************************************)
\* getenv(name): a null pointer, or the value
Unset == [set |-> FALSE, value |-> <<>>]
Value(str) == [set |-> TRUE, value |-> str]

dir_exists(files, dir_name) ==
  dir_name # <<>> /\ stat_errno(files, dir_name) = "ok"

\* dot_dir and xdg_dir of default_rr_trace_dir
dot_dir(environ) ==
  IF environ.HOME.set THEN environ.HOME.value \o <<"/", ".", "r", "r">>
  ELSE <<>>

xdg_dir(environ) ==
  IF environ.XDG_DATA_HOME.set
  THEN environ.XDG_DATA_HOME.value \o <<"/", "r", "r">>
  ELSE IF environ.HOME.set
  THEN environ.HOME.value \o <<"/", ".", "l", "o", "c", "a", "l", "/",
                               "s", "h", "a", "r", "e", "/", "r", "r">>
  ELSE <<>>

TmpRr == <<"/", "t", "m", "p", "/", "r", "r">>

\* faulty variant: ~/.rr is preferred whenever it exists
default_rr_trace_dir_dot_first(environ, files, cached_dir) ==
  IF cached_dir # <<>> THEN cached_dir
  ELSE IF dir_exists(files, dot_dir(environ)) THEN dot_dir(environ)
  ELSE IF dir_exists(files, xdg_dir(environ)) THEN xdg_dir(environ)
  ELSE IF xdg_dir(environ) # <<>> THEN xdg_dir(environ)
  ELSE TmpRr

\* default_rr_trace_dir(): cached_dir is the function's static variable
default_rr_trace_dir(environ, files, cached_dir) ==
  IF cached_dir # <<>> THEN cached_dir
  ELSE IF dir_exists(files, xdg_dir(environ)) THEN xdg_dir(environ)
  ELSE IF dir_exists(files, dot_dir(environ)) THEN dot_dir(environ)
  ELSE IF xdg_dir(environ) # <<>> THEN xdg_dir(environ)
  ELSE TmpRr

trace_save_dir(environ, files, cached_dir) ==
  IF environ.RR_TRACE_DIR.set THEN environ.RR_TRACE_DIR.value
  ELSE default_rr_trace_dir(environ, files, cached_dir)

\* errno of mkdir(path), or "ok"
mkdir_errno(files, path) ==
  LET parent == SubSeq(path, 1, MaxOf(SlashPositions(path)) - 1) IN
  IF stat_errno(files, path) = "ok" THEN "EEXIST"
  ELSE IF stat_errno(files, parent) # "ok" THEN stat_errno(files, parent)
  ELSE IF files[parent].mode # S_IFDIR THEN "ENOTDIR"
  ELSE "ok"

\* the do-while loop of make_trace_dir in root, from nonce on: the nonce
\* of the last mkdir and its result
RECURSIVE MkdirLoop(_, _, _, _)
MkdirLoop(files, root, exe_path, nonce) ==
  LET path == root \o <<"/">> \o basename(exe_path) \o <<"-">> \o sprintf_d(nonce)
      ret == mkdir_errno(files, path)
  IN IF RetryMkdir(ret) THEN MkdirLoop(files, root, exe_path, nonce + 1)
     ELSE [dir |-> path, nonce |-> nonce, ret |-> ret]

\* make_trace_dir(exe_path) in a fresh process with the given environment
TraceWriter_make_trace_dir(environ, exe_path) ==
  /\ last.op # "TraceWriter_make_trace_dir"
  /\ LET default == default_rr_trace_dir(environ, fs, <<>>)
         ens == ensure_dir(fs, default, <<>>, "none")
         root == trace_save_dir(environ, ens.files, default)
         loop == MkdirLoop(ens.files, root, exe_path, 0)
     IN
       /\ fs' = IF ~ens.fatal /\ loop.ret = "ok"
                THEN ens.files @@ (loop.dir :> Dir(TRUE))
                ELSE ens.files
       /\ last' = [op |-> "TraceWriter_make_trace_dir", environ |-> environ,
                   pre |-> fs, default |-> default, ensured |-> ens.files,
                   root |-> root,
                   dir |-> IF ens.fatal THEN <<>> ELSE loop.dir,
                   fatal |-> ens.fatal \/ loop.ret # "ok"]
  /\ UNCHANGED <<wstate, wtime, mmap_count, files_assumed_immutable,
                 trace_files, supports_file_data_cloning_, version_file,
                 streams, W, rd, pr>>

HomeDir == <<"/", "h">>
XdgDataHome == <<"/", "x">>
OutputDir == <<"/", "o">>

EnvironInputs ==
  [HOME : {Unset, Value(HomeDir)},
   XDG_DATA_HOME : {Unset, Value(XdgDataHome)},
   RR_TRACE_DIR : {Unset, Value(OutputDir)}]

\* file systems: /h, /x and /tmp are always there; any of the candidate
\* roots, _RR_TRACE_DIR's directory and an earlier trace in it may be, each
\* with the directories it lies in
RootFsInputs ==
  LET BaseDirs == {HomeDir, XdgDataHome, <<"/", "t", "m", "p">>}
      OptionalDirs ==
        {XdgDataHome \o <<"/", "r", "r">>,
         HomeDir \o <<"/", ".", "r", "r">>,
         HomeDir \o <<"/", ".", "l", "o", "c", "a", "l", "/",
                      "s", "h", "a", "r", "e", "/", "r", "r">>,
         TmpRr,
         OutputDir,
         OutputDir \o <<"/", "x", "-", "0">>}
      WithAncestors(S) == S \cup UNION {Ancestors(path) : path \in S}
  IN {[path \in WithAncestors(BaseDirs \cup S) |-> Dir(TRUE)] :
        S \in SUBSET OptionalDirs}

InitRoot ==
  /\ TraceWriter_ctor(TRACE_VERSION, 0, FALSE, FALSE)
  /\ fs \in RootFsInputs
  /\ pr = [p \in Recorders |-> IdleRecorder]

NextRoot ==
  \E environ \in EnvironInputs : TraceWriter_make_trace_dir(environ, ExePath)

SpecRoot == InitRoot /\ [][NextRoot]_vars

(***************************************************************************)
(* SpecSeq: a writer whose write_mapped_region calls, some of which clone  *)
(* or hardlink the mapped file, are interleaved with its other writes.     *)
(***************************************************************************)
\* cloning works, only hardlinks work, neither works
SeqEnvInputs ==
  {Env(TRUE, TRUE, TRUE, TRUE, FALSE), Env(FALSE, FALSE, FALSE, TRUE, FALSE),
   NoCloningEnv}

NextSeq ==
  \/ write_frame(SchedFrame(wtime))
  \/ write_raw(7, <<97>>, 4096)
  \/ write_generic(<<5>>)
  \/ write_task_event(ExitEvent)
  \/ \E m \in MappingInputs, origin \in {"EXEC_MAPPING", "REMAP_MAPPING"},
        env \in SeqEnvInputs :
       write_mapped_region(m[1], m[2], origin, env)
  \/ close

SpecSeq == Init /\ [][NextSeq]_vars

(***************************************************************************)
(* SpecDrain: a writer that stamps every frame with its clock, and a       *)
(* reader that after each read_frame drains RAW_DATA_HEADER and GENERIC    *)
(* with the frame it got before it reads the next frame.                   *)
(***************************************************************************)
\* frames whose time is the writer's clock
ClockFrameInputs == {SchedFrame(wtime), SyscallFrame64(wtime)}

\* the reader's last call was read_frame or a drain call that returned
DrainingFrame ==
  /\ last.op \in {"read_frame", "read_raw_data_for_frame",
                  "read_generic_for_frame"}
  /\ ~rd[last.rdr].failed

\* a drain call with the frame read last would return false now; such a
\* call changes nothing in the reader
WouldReturnFalse(stream, r) ==
  ForFrame(at_end(streams[stream], rd[r].cur[stream]),
           Tok(streams[stream], rd[r].cur[stream] + 1),
           last.frame.time) = "false"

\* read_frame as the first call, or after a drain call returned false with
\* the other substream drained as well
drain_read_frame(r) ==
  /\ \/ last.op = "TraceReader"
     \/ /\ DrainingFrame
        /\ last.op # "read_frame"
        /\ last.rdr = r
        /\ ~last.ret
        /\ WouldReturnFalse("data_header", r)
        /\ WouldReturnFalse("generic", r)
  /\ read_frame(r)

drain_read_raw_data_for_frame(r) ==
  /\ DrainingFrame
  /\ last.rdr = r
  /\ read_raw_data_for_frame(r, last.frame)

drain_read_generic_for_frame(r) ==
  /\ DrainingFrame
  /\ last.rdr = r
  /\ read_generic_for_frame(r, last.frame)

NextDrain ==
  \/ \E frame \in ClockFrameInputs : write_frame(frame)
  \/ \E d \in RawInputs : write_raw(7, d, 4096)
  \/ \E d \in GenericInputs : write_generic(d)
  \/ close
  \/ TraceReader_ctor
  \/ drain_read_frame(1)
  \/ drain_read_raw_data_for_frame(1)
  \/ drain_read_generic_for_frame(1)

SpecDrain == Init /\ [][NextDrain]_vars

(***************************************************************************)
(* Claims.                                                                 *)
(***************************************************************************)
\* the last operation was operation name of a reader and it returned
Returned(name) ==
  /\ last.op = name
  /\ ~rd[last.rdr].failed

\* the k-th record written to a substream, if there is one
Written(log, k) == IF k >= 1 /\ k <= Len(log) THEN <<log[k]>> ELSE <<>>

\* the fields of a written raw record that the reader returns
RawFields(w) ==
  [time |-> w.time, rec_tid |-> w.rec_tid, addr |-> w.addr, data |-> w.data]

\* reader r has consumed all of every substream
AllRead(r) ==
  /\ at_end(streams.events, rd[r].cur.events)
  /\ at_end(streams.data_header, rd[r].cur.data_header)
  /\ at_end(streams.data, rd[r].cur.data)
  /\ at_end(streams.generic, rd[r].cur.generic)
  /\ at_end(streams.tasks, rd[r].cur.tasks)
  /\ at_end(streams.mmaps, rd[r].cur.mmaps)

C2_ClockCountsFrames ==
  /\ last.op = "TraceReader" => rd[1].time = 0
  /\ \A r \in Readers :
       (rd[r].active /\ ~rd[r].failed) => rd[r].time = rd[r].n.events

\* two frames read, with a peek and reads of other substreams in between
C2_Witness ==
  /\ rd[1].active /\ ~rd[1].failed
  /\ rd[1].n.events = 2 /\ rd[1].time = 2
  /\ rd[1].n.data_header = 1
  /\ last.op = "peek_frame"

\* the frame_time of the i-th record of RAW_DATA_HEADER
HeaderTime(i) == Tok(streams.data_header, 4 * (i - 1) + 1)

\* the unread part of RAW_DATA_HEADER of a reader state x starts with a
\* record of time t
NextRawHasTime(x, t) ==
  /\ ~at_end(streams.data_header, x.cur.data_header)
  /\ Tok(streams.data_header, x.cur.data_header + 1) = t

\* the unread part of GENERIC of a reader state x starts with a record of
\* time t
NextGenericHasTime(x, t) ==
  /\ ~at_end(streams.generic, x.cur.generic)
  /\ Tok(streams.generic, x.cur.generic + 1) = t

\* C3 as stated: a write_raw that follows the write_frame of the frame with
\* time t stamps its RAW_DATA_HEADER record with t.
C3_RawAfterFrameCarriesItsTime ==
  (last.op = "write_raw" /\ Len(W.events) > 0) =>
    HeaderTime(Len(W.raw)) = W.events[Len(W.events)].time

\* C3 as amended: a RAW_DATA_HEADER record carries the writer's clock at the
\* write_raw call, which is the time of the frame that the next write_frame
\* writes (when that frame is stamped with the writer's clock), not of the
\* frame written before.  On the reader, once read_frame has returned the
\* frame with time t (global_time = t), read_raw_data_for_frame(that frame)
\* returns true with the written tid, addr and data when the next unread
\* header is a record of time t, and returns false and consumes nothing when
\* the header stream is at its end or its next record is of a later frame.
C3_RawBeforeFrameCarriesItsTime ==
  /\ \A i \in 1..Len(W.raw) :
       /\ HeaderTime(i) = W.raw[i].frames_before + 1
       /\ \A j \in 1..Len(W.events) :
            (j = W.raw[i].frames_before + 1 /\ W.events[j].time = j) =>
              HeaderTime(i) = W.events[j].time
  /\ (last.op = "read_raw_data_for_frame" /\ last.frame.time = last.pre.time) =>
       /\ NextRawHasTime(last.pre, last.frame.time) =>
            /\ ~rd[last.rdr].failed
            /\ last.ret
            /\ last.d = RawFields(W.raw[last.pre.n.data_header + 1])
       /\ (\/ at_end(streams.data_header, last.pre.cur.data_header)
           \/ Tok(streams.data_header, last.pre.cur.data_header + 1)
                > last.frame.time) =>
            /\ ~rd[last.rdr].failed
            /\ ~last.ret
            /\ rd[last.rdr] = last.pre

\* the second read_raw_data_for_frame for frame 1: the first one consumed the
\* record written before the frame, this one returns false
C3_Witness ==
  /\ last.op = "read_raw_data_for_frame"
  /\ last.frame.time = 1 /\ last.pre.time = 1
  /\ last.pre.n.data_header = 1
  /\ W.raw[1].data = <<97, 98, 99>> /\ W.raw[1].frames_before = 0
  /\ ~last.ret

\* Effect of a *_for_frame call that returned: with hdr/pay the cursors of
\* the header and payload before and after, size the tokens of one header
\* record and len the payload length it announces.
ForFrameEffect(next_has_time, hdr_stream, pay_stream, size, len) ==
  LET x == last.pre
      y == rd[last.rdr]
  IN /\ last.ret <=> next_has_time
     /\ ~last.ret => y.cur = x.cur
     /\ last.ret =>
          /\ \A s \in Substreams \ {hdr_stream, pay_stream} : y.cur[s] = x.cur[s]
          /\ IF hdr_stream = pay_stream
               THEN y.cur[hdr_stream] = x.cur[hdr_stream] + size + len
               ELSE /\ y.cur[hdr_stream] = x.cur[hdr_stream] + size
                    /\ y.cur[pay_stream] = x.cur[pay_stream] + len

\* C4: a read_raw_data_for_frame(f) call that returns, returns true iff the
\* next RAW_DATA_HEADER record's time equals f.time(); when it returns false
\* all cursors are where they were, when it returns true exactly one header
\* record and its len payload bytes are consumed.  read_generic_for_frame
\* does the same on GENERIC.  (A call does not return when an assertion
\* fails: the next time is less than f.time(), or it equals f.time() but not
\* the reader's global_time.)
C4_ForFrame ==
  /\ Returned("read_raw_data_for_frame") =>
       ForFrameEffect(NextRawHasTime(last.pre, last.frame.time),
                      "data_header", "data", 4,
                      Tok(streams.data_header, last.pre.cur.data_header + 4))
  /\ Returned("read_generic_for_frame") =>
       ForFrameEffect(NextGenericHasTime(last.pre, last.frame.time),
                      "generic", "generic", 2,
                      Tok(streams.generic, last.pre.cur.generic + 2))
  /\ (last.op \in {"read_raw_data_for_frame", "read_generic_for_frame"}
      /\ rd[last.rdr].failed) =>
       LET t == IF last.op = "read_raw_data_for_frame"
                  THEN Tok(streams.data_header, last.pre.cur.data_header + 1)
                  ELSE Tok(streams.generic, last.pre.cur.generic + 1)
       IN \/ t < last.frame.time
          \/ t = last.frame.time /\ t # last.pre.time

\* read_raw_data_for_frame returned false because the next header belongs to
\* a later frame
C4_Witness ==
  /\ Returned("read_raw_data_for_frame")
  /\ ~last.ret
  /\ ~at_end(streams.data_header, last.pre.cur.data_header)
  /\ Tok(streams.data_header, last.pre.cur.data_header + 1) > last.frame.time

\* C5: peek_frame leaves the reader as it was: global_time, the EVENTS
\* cursor and the cursors of all other substreams are unchanged, also at the
\* end of EVENTS.
C5_PeekUnchanged ==
  Returned("peek_frame") =>
    /\ rd[last.rdr].time = last.pre.time
    /\ rd[last.rdr].cur = last.pre.cur

\* peek_frame returned a frame with registers and extra registers
C5_Witness ==
  /\ Returned("peek_frame")
  /\ last.frame.extra = <<9>>
  /\ last.pre.cur.events > 0

\* frames stamped 1 and 2 are the first two frames of the trace
Frames12 ==
  /\ Len(W.events) >= 2
  /\ W.events[1].time = 1
  /\ W.events[2].time = 2

\* C6 as stated: with frames at times 1 and 2 written, peek_frame returns
\* frame 2's data.
C6_PeekReturnsFrame2 ==
  (Returned("peek_frame") /\ Frames12) => last.frame = W.events[2]

\* C6 as amended: with frames at times 1 and 2 written and frame 1 read
\* (global_time = 1), peek_frame returns frame 2's data and leaves
\* global_time at 1; the read_frame that follows returns frame 2 and
\* global_time becomes 2.
C6_PeekThenRead ==
  [][(Returned("peek_frame") /\ Frames12 /\ last.pre.time = 1) =>
       /\ last.frame = W.events[2]
       /\ rd[last.rdr].time = 1
       /\ last'.op = "read_frame" =>
            /\ last'.frame = W.events[2]
            /\ rd'[last.rdr].time = 2
            /\ ~rd'[last.rdr].failed]_vars

\* frame 1 was read and peek_frame has returned frame 2
C6_Witness ==
  /\ Returned("peek_frame")
  /\ Frames12
  /\ last.pre.time = 1
  /\ last.frame.time = 2

\* the other reader
Other(r) == CHOOSE q \in Readers : q # r

ReaderOps ==
  {"read_frame", "peek_frame", "read_raw_data", "read_raw_data_for_frame",
   "read_generic", "read_generic_for_frame", "read_task_event",
   "read_mapped_region", "rewind"}

\* C7: a copy-constructed reader starts with the original's global_time and
\* its position in all six substreams, the copy leaves the original as it
\* was, and afterwards a read, peek or rewind of either reader leaves the
\* other reader's global_time and six cursors unchanged.
C7_CopyIndependent ==
  [][/\ last'.op = "copy" =>
          /\ rd'[2].time = rd[1].time
          /\ rd'[2].cur = rd[1].cur
          /\ rd'[1] = rd[1]
     /\ last'.op \in ReaderOps =>
          /\ rd'[Other(last'.rdr)].time = rd[Other(last'.rdr)].time
          /\ rd'[Other(last'.rdr)].cur = rd[Other(last'.rdr)].cur]_vars

\* the copy was made in the middle of the trace and the two readers have
\* since moved apart in the clock and in three substreams
C7_Witness ==
  /\ rd[1].active /\ rd[2].active
  /\ last.op \in ReaderOps /\ last.rdr = 2
  /\ rd[1].time = 1 /\ rd[2].time = 2
  /\ rd[1].cur.events < rd[2].cur.events
  /\ rd[1].cur.data_header = 4 /\ rd[2].cur.data_header = 0
  /\ rd[1].cur.data = 1 /\ rd[2].cur.data = 0

\* the record the last write_mapped_region emitted to MMAPS
Emitted == streams.mmaps[Len(streams.mmaps)]

\* C8: write_mapped_region returns RECORD_IN_TRACE iff the source of the
\* record it emitted is Trace, and DONT_RECORD_IN_TRACE when it is Zero or
\* File.
C8_RecordInTraceIffTrace ==
  last.op = "write_mapped_region" =>
    /\ last.ret = "RECORD_IN_TRACE" <=> Emitted.source = "Trace"
    /\ Emitted.source \in {"Zero", "File"} => last.ret = "DONT_RECORD_IN_TRACE"
    /\ Emitted.source \in {"Zero", "Trace", "File"}

\* a mapping of a file was copied into the trace
C8_Witness ==
  /\ last.op = "write_mapped_region"
  /\ last.ret = "RECORD_IN_TRACE"
  /\ Emitted.fsname = LibA

\* The seven rules, each as the condition under which it applies and the
\* source it gives, for a call with clock-independent inputs km, stat,
\* origin, env in a writer state with mmap_count count, the set fai and the
\* trace directory files.
RuleMatches(k, km, stat, origin, env, count, fai, files) ==
  LET clone_name == mmap_clone_ \o sprintf_d(count) \o <<"_">>
                      \o base_file_name(km.fsname)
      can_clone(ok) == env.use_file_cloning /\ ok /\ clone_name \notin files
  IN CASE k = 1 -> origin \in {"REMAP_MAPPING", "PATCH_MAPPING"}
       [] k = 2 -> Len(km.fsname) >= 5 /\
                   [i \in 1..5 |-> km.fsname[i]] = <<"/", "S", "Y", "S", "V">>
       [] k = 3 -> origin = "SYSCALL_MAPPING" /\
                   (km.inode = 0 \/ km.fsname = DevZeroDeleted)
       [] k = 4 -> origin = "RR_BUFFER_MAPPING"
       [] k = 5 -> km.flags = MAP_PRIVATE /\ can_clone(env.clone5)
       [] k = 6 -> env.should_copy /\ <<stat.st_dev, stat.st_ino>> \notin fai
       [] k = 7 -> TRUE

RuleSource(k, km, stat, origin, env, count, fai, files) ==
  LET clone_name == mmap_clone_ \o sprintf_d(count) \o <<"_">>
                      \o base_file_name(km.fsname)
      link_name == mmap_hardlink_ \o sprintf_d(count) \o <<"_">>
                      \o base_file_name(km.fsname)
  IN CASE k \in {1, 3, 4} -> [source |-> "Zero", backing |-> <<>>]
       [] k \in {2, 6} -> [source |-> "Trace", backing |-> <<>>]
       [] k = 5 -> [source |-> "File", backing |-> clone_name]
       [] k = 7 ->
            [source |-> "File",
             backing |->
               IF env.use_file_cloning /\ env.clone7 /\ clone_name \notin files
                 THEN clone_name
               ELSE IF env.link /\ link_name \notin files THEN link_name
               ELSE km.fsname]

\* the first rule that matches
FirstRule(km, stat, origin, env, count, fai, files) ==
  CHOOSE k \in 1..7 :
    /\ RuleMatches(k, km, stat, origin, env, count, fai, files)
    /\ \A j \in 1..(k - 1) :
         ~RuleMatches(j, km, stat, origin, env, count, fai, files)

\* C9: in every writer state and for every input, the source (and backing
\* file name) that write_mapped_region chooses for the record it emits is
\* the one the first matching rule of the seven-rule list gives.
C9_SevenRules ==
  (wstate = "open" /\ Len(W.mmaps) < MaxMmaps) =>
    \A m \in MappingInputs, origin \in Origins, env \in EnvInputs :
      LET c == ClassifyMapping(m[1], m[2], origin, env, mmap_count,
                               files_assumed_immutable, trace_files)
          msg == MMapMessage(m[1], m[2], wtime, c.source, c.backing)
          k == FirstRule(m[1], m[2], origin, env, mmap_count,
                         files_assumed_immutable, trace_files)
          ref == RuleSource(k, m[1], m[2], origin, env, mmap_count,
                            files_assumed_immutable, trace_files)
      IN /\ msg.source = ref.source
         /\ msg.backingFileName = ref.backing

\* rule 6 did not apply because the file was already assumed immutable, and
\* rule 7 hardlinked it
C9_Witness ==
  /\ last.op = "write_mapped_region"
  /\ <<1, 5>> \in last.pre_fai
  /\ Emitted.inode = 5
  /\ Emitted.backingFileName = HardlinkName(1, LibA)

\* C10 as stated: a write_mapped_region with origin RR_BUFFER emits a Zero
\* record and returns DONT_RECORD_IN_TRACE.
C10_RRBufferIsZero ==
  (last.op = "write_mapped_region" /\
   W.mmaps[Len(W.mmaps)].origin = "RR_BUFFER_MAPPING") =>
    /\ Emitted.source = "Zero"
    /\ last.ret = "DONT_RECORD_IN_TRACE"

\* C10 as amended: a write_mapped_region with origin RR_BUFFER for a mapping
\* whose fsname does not begin with /SYSV emits a Zero record and returns
\* DONT_RECORD_IN_TRACE, and read_mapped_region reports SOURCE_ZERO for that
\* record.
C10_RRBufferNotSysVIsZero ==
  /\ (last.op = "write_mapped_region" /\
      W.mmaps[Len(W.mmaps)].origin = "RR_BUFFER_MAPPING" /\
      ~StartsWith(W.mmaps[Len(W.mmaps)].km.fsname, SYSV)) =>
       /\ Emitted.source = "Zero"
       /\ last.ret = "DONT_RECORD_IN_TRACE"
  /\ (Returned("read_mapped_region") /\ last.found /\ last.has_data /\
      W.mmaps[last.pre.n.mmaps + 1].origin = "RR_BUFFER_MAPPING" /\
      ~StartsWith(W.mmaps[last.pre.n.mmaps + 1].km.fsname, SYSV)) =>
       last.data.source = "SOURCE_ZERO"

\* read_mapped_region has returned the record of an RR_BUFFER mapping of a
\* file
C10_Witness ==
  /\ Returned("read_mapped_region") /\ last.found
  /\ W.mmaps[last.pre.n.mmaps + 1].origin = "RR_BUFFER_MAPPING"
  /\ last.km.fsname = LibA
  /\ last.data.source = "SOURCE_ZERO"

\* the reader's clock and every cursor but that of substream s are as
\* they were before the last operation
OnlyMoved(s) ==
  /\ rd[last.rdr].time = last.pre.time
  /\ \A q \in Substreams \ {s} : rd[last.rdr].cur[q] = last.pre.cur[q]

\* C11: a read_mapped_region call that returns.  At the end of MMAPS, or
\* under CURRENT_TIME_ONLY with the next record's frame time different from
\* global_time, the MMAPS cursor is where it was, the mapping returned is
\* empty and *found is false; otherwise exactly one record is consumed,
\* *found is true and the mapping returned is the one written.  Nothing
\* else of the reader moves.
C11_CurrentTimeOnly ==
  Returned("read_mapped_region") =>
    LET pre == last.pre
        now == rd[last.rdr]
    IN /\ OnlyMoved("mmaps")
       /\ IF pre.n.mmaps = Len(W.mmaps)
            THEN /\ now.cur.mmaps = pre.cur.mmaps
                 /\ last.km = EmptyMapping /\ ~last.found
            ELSE LET rec == W.mmaps[pre.n.mmaps + 1] IN
                 IF last.time_constraint = "CURRENT_TIME_ONLY"
                    /\ rec.time # pre.time
                   THEN /\ now.cur.mmaps = pre.cur.mmaps
                        /\ last.km = EmptyMapping /\ ~last.found
                   ELSE /\ now.cur.mmaps = pre.cur.mmaps + 1
                        /\ last.km = rec.km /\ last.found

\* a CURRENT_TIME_ONLY read met a record of another time and gave it back
C11_Witness ==
  /\ Returned("read_mapped_region")
  /\ last.time_constraint = "CURRENT_TIME_ONLY"
  /\ last.pre.n.mmaps < Len(W.mmaps)
  /\ W.mmaps[last.pre.n.mmaps + 1].time # last.pre.time
  /\ ~last.found
  /\ rd[last.rdr].cur.mmaps = last.pre.cur.mmaps

\* the version file begins with the decimal numeral of v and a newline
HoldsVersion(v) == StartsWith(version_file, sprintf_d(v) \o <<"\n">>)

\* no reader exists and nothing of the trace was handed out
NothingExposed ==
  /\ rd[1] = [NoReader EXCEPT !.failed = TRUE]
  /\ "header" \notin DOMAIN last

\* C12: when the reader's constructor has run on a version file that holds
\* a decimal version other than TRACE_VERSION the process has exited with
\* the data-error status, no reader exists and no header was decoded; on
\* the version file TraceWriter's constructor of this build wrote, the
\* handshake passes and the reader is constructed.  A reader that does not
\* exist has consumed nothing.
C12_VersionHandshake ==
  /\ last.op = "TraceReader" =>
       /\ \A v \in VersionInputs :
            (HoldsVersion(v) /\ v # TRACE_VERSION) =>
              (last.outcome = "EX_DATAERR" /\ NothingExposed)
       /\ (\E bind_to_cpu \in {0, 2}, has_cpuid_faulting \in BOOLEAN :
             version_file = VersionFile(TRACE_VERSION,
                              HeaderBytes(bind_to_cpu, has_cpuid_faulting))) =>
            (last.outcome = "ok" /\ rd[1] = FreshReader
             /\ version_file =
                  VersionFile(TRACE_VERSION,
                              HeaderBytes(last.header.bind_to_cpu,
                                          last.header.trace_uses_cpuid_faulting)))
       /\ last.outcome # "ok" => NothingExposed
  /\ ~rd[1].active => rd[1].cur = ZeroCursors

\* the constructor has met the version file of a build of another version,
\* in a trace that holds a frame, and the process has exited
C12_Witness ==
  /\ last.op = "TraceReader"
  /\ HoldsVersion(84)
  /\ last.outcome = "EX_DATAERR"
  /\ Len(W.events) > 0

\* C15: after TraceWriter's constructor supports_file_data_cloning_ is
\* true iff the probe's ioctl succeeded, and tmp_clone is not in the trace
\* directory then nor at any later time.
C15_CloningProbe ==
  /\ last.op = "TraceWriter" =>
       (supports_file_data_cloning_ <=> last.ioctl_ok)
  /\ tmp_clone \notin trace_files
  /\ version_name \in trace_files

\* the constructor has returned after a probe whose ioctl succeeded
C15_Witness ==
  /\ last.op = "TraceWriter"
  /\ last.ioctl_ok
  /\ supports_file_data_cloning_

\* C13: after rewind the reader is in the state the constructor leaves
\* (every cursor at the start, global_time 0), and every read that returns
\* afterwards yields the record a fresh reader would yield at the same
\* point: the k-th read of a substream since the rewind returns the k-th
\* record written to it.
C13_RewindIsFresh ==
  /\ Returned("rewind") =>
       [rd[last.rdr] EXCEPT !.dec = FreshReader.dec] = FreshReader
  /\ Returned("read_frame") =>
       Written(W.events, last.pre.n.events + 1) = <<last.frame>>
  /\ Returned("read_raw_data") =>
       /\ last.pre.n.data_header + 1 <= Len(W.raw)
       /\ RawFields(W.raw[last.pre.n.data_header + 1]) = last.d
  /\ Returned("read_generic") =>
       Written(W.generic, last.pre.n.generic + 1) = <<last.d>>
  /\ (Returned("read_task_event") /\ last.event.type # "NONE") =>
       Written(W.tasks, last.pre.n.tasks + 1) = <<last.event>>
  /\ (Returned("read_mapped_region") /\ last.found) =>
       /\ last.pre.n.mmaps + 1 <= Len(W.mmaps)
       /\ W.mmaps[last.pre.n.mmaps + 1].km = last.km
  /\ \A r \in Readers :
       (rd[r].active /\ ~rd[r].failed) =>
         /\ rd[r].time = rd[r].n.events
         /\ rd[r].n.tasks = rd[r].cur.tasks
         /\ rd[r].n.mmaps = rd[r].cur.mmaps

\* a reader that had read two frames and a raw record was rewound
C13_Witness ==
  /\ Returned("rewind")
  /\ last.pre.time = 2
  /\ last.pre.cur.data_header > 0
  /\ rd[last.rdr].time = 0

\* the tids of a written task event that i32_to_tid accepts
TidsValid(event) ==
  /\ event.tid > 0
  /\ event.type = "CLONE" => (event.parent_tid > 0 /\ event.own_ns_tid > 0)

\* C14 as claimed: the event read_task_event returns carries the frame time
\* of its record.
C14_EventCarriesFrameTime ==
  (Returned("read_task_event") /\ last.event.type # "NONE") =>
    /\ "frame_time" \in DOMAIN last.event
    /\ last.event.frame_time = streams.tasks[last.pre.cur.tasks + 1].frameTime

\* C14, amended: the TASKS record of a write_task_event carries the
\* writer's global_time at the call; read_task_event returns the events
\* written, in order, with type, tid and every payload field, and the
\* sentinel NONE once TASKS is exhausted; what it returns does not depend
\* on the record's frame time; it ends in FATAL() exactly when a tid of the
\* record is not positive.
C14_TaskRoundTrip ==
  /\ (last.op = "write_task_event" /\ wstate # "failed") =>
       streams.tasks[Len(streams.tasks)].frameTime = last.pre_time
  /\ last.op = "read_task_event" =>
       LET k == last.pre.n.tasks + 1 IN
       IF last.pre.n.tasks = Len(W.tasks)
         THEN /\ ~rd[last.rdr].failed
              /\ last.event = NoTaskEvent
              /\ rd[last.rdr].cur.tasks = last.pre.cur.tasks
         ELSE /\ rd[last.rdr].failed <=> ~TidsValid(W.tasks[k])
              /\ rd[last.rdr].cur.tasks = last.pre.cur.tasks + 1
              /\ ~rd[last.rdr].failed =>
                   /\ last.event = W.tasks[k]
                   /\ last.event =
                        DecodeTaskEvent([streams.tasks[k] EXCEPT !.frameTime = 0])

\* CLONE, EXEC and EXIT were written in this order and the reader has
\* returned the third of them
C14_Witness ==
  /\ Returned("read_task_event")
  /\ Len(W.tasks) = 3
  /\ W.tasks[1].type = "CLONE" /\ W.tasks[2].type = "EXEC"
  /\ W.tasks[3].type = "EXIT"
  /\ last.event = ExitEvent

\* the cursor in EVENTS where the k-th frame written begins
RECURSIVE FrameStart(_)
FrameStart(k) ==
  IF k <= 1 THEN 0 ELSE DecodeFrame(streams.events, FrameStart(k - 1)).cur

\* the k-th frame as EVENTS holds it
RecordedFrame(k) == DecodeFrame(streams.events, FrameStart(k)).frame

\* C16 as claimed: the frame written by the k-th write_frame call is
\* recorded with time k.
C16_FrameTimesCountFrames ==
  \A k \in 1..Len(W.events) : RecordedFrame(k).time = k

\* C16, amended: the writer's global_time starts at 1 and is the number of
\* write_frame calls made plus 1, whatever other writer operations ran;
\* EVENTS holds for each frame the time the caller stamped it with; so the
\* k-th frame is recorded with time k when the caller stamped it with the
\* writer's clock at the call.
C16_WriterClock ==
  /\ wtime = WriterInitialTime + Len(W.events)
  /\ \A k \in 1..Len(W.events) :
       /\ RecordedFrame(k).time = W.events[k].time
       /\ W.events[k].time = WriterInitialTime + (k - 1) =>
            /\ RecordedFrame(k).time = k
            /\ RecordedFrame(k).time >= 1
  /\ (last.op \in {"write_raw", "write_generic", "write_task_event",
                   "write_mapped_region"}) => wtime = last.pre_time
  /\ last.op = "write_frame" => wtime = last.pre_time + 1

\* three frames were written, each stamped with the writer's clock
C16_Witness ==
  /\ Len(W.events) = 3
  /\ \A k \in 1..3 : W.events[k].time = k /\ RecordedFrame(k).time = k
  /\ wtime = 4

\* C17 as claimed: whenever rule 7 is the first rule that matches, the
\* file's (device, inode) is in files_assumed_immutable after the call.
C17_Rule7AlwaysAssumed ==
  (wstate = "open" /\ Len(W.mmaps) < MaxMmaps) =>
    \A m \in MappingInputs, origin \in Origins, env \in EnvInputs :
      LET c == ClassifyMapping(m[1], m[2], origin, env, mmap_count,
                               files_assumed_immutable, trace_files)
          k == FirstRule(m[1], m[2], origin, env, mmap_count,
                         files_assumed_immutable, trace_files)
      IN k = 7 => <<m[2].st_dev, m[2].st_ino>> \in c.fai

\* C17, amended: a write_mapped_region call adds the file's (st_dev,
\* st_ino) to files_assumed_immutable exactly when rule 7 is reached and
\* its clone attempt fails, that is when the record's source is File with a
\* hardlink name or the original path as backing; when rule 7 clones the
\* file, and under every other rule, the set is left as it was.
C17_AssumedWhenNotCloned ==
  /\ (wstate = "open" /\ Len(W.mmaps) < MaxMmaps) =>
       \A m \in MappingInputs, origin \in Origins, env \in EnvInputs :
         LET c == ClassifyMapping(m[1], m[2], origin, env, mmap_count,
                                  files_assumed_immutable, trace_files)
             k == FirstRule(m[1], m[2], origin, env, mmap_count,
                            files_assumed_immutable, trace_files)
             cloned == c.backing = CloneName(mmap_count, m[1].fsname)
         IN c.fai = IF k = 7 /\ ~cloned
                      THEN files_assumed_immutable
                             \cup {<<m[2].st_dev, m[2].st_ino>>}
                      ELSE files_assumed_immutable
  /\ last.op = "write_mapped_region" =>
       LET w == W.mmaps[Len(W.mmaps)]
           kept == Emitted.source = "File" /\
                   ~StartsWith(data_to_str(Emitted.backingFileName), mmap_clone_)
       IN files_assumed_immutable =
            IF kept THEN last.pre_fai \cup {<<w.stat.st_dev, w.stat.st_ino>>}
            ELSE last.pre_fai

\* rule 7 cloned a file that is mapped shared: the record names the clone
\* and the file is not in files_assumed_immutable
C17_Witness ==
  /\ last.op = "write_mapped_region"
  /\ Emitted.source = "File"
  /\ Emitted.flags = MAP_SHARED
  /\ Emitted.backingFileName = CloneName(last.pre_count, LibA)
  /\ <<1, 5>> \notin files_assumed_immutable

\* a step that leaves files_assumed_immutable alone or is a
\* write_mapped_region call that only adds to it
OnlyGrowsByMapping ==
  /\ files_assumed_immutable \subseteq files_assumed_immutable'
  /\ files_assumed_immutable' # files_assumed_immutable =>
       /\ last'.op = "write_mapped_region"
       /\ Len(W'.mmaps) = Len(W.mmaps) + 1

RECURSIVE SumOfLens(_)
SumOfLens(j) ==
  IF j = 0 THEN 0 ELSE SumOfLens(j - 1) + Tok(streams.data_header, 4 * j)

\* C19: for every reader that has not aborted, the RAW_DATA_HEADER cursor
\* stands after as many whole header records as the reader consumed, and
\* the RAW_DATA cursor offset is the sum of the len fields of those
\* headers, so that as many payload blobs as headers were consumed; a
\* read_raw_data_for_frame call that returns false after peeking the header
\* time moves neither cursor.
C19_RawStreamsInStep ==
  /\ \A r \in Readers :
       (rd[r].active /\ ~rd[r].failed) =>
         LET j == rd[r].n.data_header IN
           /\ j <= Len(W.raw)
           /\ rd[r].cur.data_header = 4 * j
           /\ rd[r].cur.data = SumOfLens(j)
  /\ (Returned("read_raw_data_for_frame") /\ ~last.ret) =>
       /\ rd[last.rdr].cur.data_header = last.pre.cur.data_header
       /\ rd[last.rdr].cur.data = last.pre.cur.data

\* a reader consumed two raw records, one of them with a payload
C19_Witness ==
  \E r \in Readers :
    /\ rd[r].active /\ ~rd[r].failed
    /\ rd[r].n.data_header = 2
    /\ rd[r].cur.data = 3

\* the MMAPS record the last read_mapped_region call decoded
ReadMap == streams.mmaps[last.pre.cur.mmaps + 1]

\* the last operation was a read_mapped_region call that decoded a record
DecodedMap ==
  /\ last.op = "read_mapped_region"
  /\ ~at_end(streams.mmaps, last.pre.cur.mmaps)

\* the record's backing is a file of its own that is to be validated: File
\* source, validate == VALIDATE, a recorded stat block, no clone name
ValidatedBacking ==
  /\ ReadMap.source = "File"
  /\ last.validate = "VALIDATE"
  /\ \/ ReadMap.statMode # 0 \/ ReadMap.statUid # 0
     \/ ReadMap.statGid # 0 \/ ReadMap.statMTime # 0
  /\ ~StartsWith(data_to_str(ReadMap.backingFileName), mmap_clone_)

\* the call consumed the record and returned its mapping with *found true
ReturnedTheMapping ==
  /\ ~rd[last.rdr].failed
  /\ rd[last.rdr].cur.mmaps = last.pre.cur.mmaps + 1
  /\ last.found
  /\ last.km = DecodeMapping(ReadMap)

\* the backing file differs in a field that read_mapped_region compares
ComparedFieldDiffers ==
  last.backing_stat \in {"st_ino", "st_mode", "st_uid", "st_gid", "st_size",
                         "st_mtime"}

\* C20 as claimed: whatever the data argument, failure to stat a backing
\* file that is to be validated is fatal.
C20_StatFailureAlwaysFatal ==
  (DecodedMap /\ ValidatedBacking /\ last.backing_stat = "fail") =>
    rd[last.rdr].failed

\* C20, amended: validation happens only when the caller passes a non-null
\* data.  Then, for a File source with validate == VALIDATE, a recorded
\* stat block and a backing that is not clone-named, failure to stat the
\* backing file is fatal, and a difference in inode, mode, uid, gid, size or
\* mtime only logs a warning: the call consumes the record and returns the
\* mapping with *found true.  With a null data, another validate, a zero
\* stat block or a clone as backing there is no stat: no fatal error and no
\* warning.  A backing name that does not start with '/' is returned
\* resolved against the trace directory.
C20_BackingValidation ==
  DecodedMap =>
    /\ (last.has_data /\ ValidatedBacking) =>
         IF last.backing_stat = "fail"
           THEN rd[last.rdr].failed
           ELSE ReturnedTheMapping /\ (last.warned <=> ComparedFieldDiffers)
    /\ ~(last.has_data /\ ValidatedBacking) =>
         ReturnedTheMapping /\ ~last.warned
    /\ (~rd[last.rdr].failed /\ last.has_data /\ ReadMap.source = "File") =>
         LET name == data_to_str(ReadMap.backingFileName) IN
           last.data.file_name =
             IF Head(name) = "/" THEN name ELSE dir \o <<"/">> \o name

\* a validated read of a hardlinked backing whose mtime changed: the warning
\* is logged and the mapping is returned with the name under the trace
\* directory
C20_Witness ==
  /\ DecodedMap
  /\ last.has_data /\ ValidatedBacking
  /\ last.backing_stat = "st_mtime"
  /\ last.warned
  /\ ReturnedTheMapping
  /\ StartsWith(data_to_str(ReadMap.backingFileName), mmap_hardlink_)
  /\ last.data.file_name = dir \o <<"/">> \o data_to_str(ReadMap.backingFileName)

\* recorder p has left make_trace_dir with a trace directory
Bound(p) == pr[p].pc \in {"bound", "symlink", "done"} \/ pr[p].ret # "none"

\* C21: make_trace_dir tries <root>/<basename(exe_path)>-N for N = 0, 1, ...
\* and goes on only after EEXIST: it ends at the first N whose mkdir
\* succeeds, any other mkdir error is fatal, the directory bound did not
\* exist before the call, and two recorders of the same executable under
\* the same root never bind the same directory.
C21_UniqueTraceDir ==
  /\ \A p \in Recorders :
       LET x == pr[p]
           n == Len(x.tried)
       IN /\ n = x.nonce
          /\ \A i \in 1..(n - 1) : x.tried[i] = "EEXIST"
          /\ n > 0 =>
               /\ x.dir = TraceDirName(ExePath, n - 1)
               /\ x.tried[n] = "EEXIST" <=> x.pc = "mkdir"
               /\ x.tried[n] = "ok" <=> Bound(p)
               /\ x.tried[n] \notin {"ok", "EEXIST"} =>
                    x.pc = "fatal" /\ x.ret = "none"
          /\ Bound(p) =>
               /\ x.dir \notin x.pre
               /\ x.dir \in DOMAIN fs /\ fs[x.dir].mode = S_IFDIR
  /\ \A p, q \in Recorders :
       (p # q /\ Bound(p) /\ Bound(q)) => pr[p].dir # pr[q].dir

\* both recorders bound a directory after each found earlier ones in place
C21_Witness ==
  /\ Bound(1) /\ Bound(2)
  /\ pr[1].dir = TraceDirName(ExePath, 2)
  /\ pr[2].dir = TraceDirName(ExePath, 1)
  /\ Len(pr[1].tried) = 3

\* the latest-trace symlink exists
LinkExists == latest_trace_symlink \in DOMAIN fs

\* recorder p's make_latest_trace call has ended in a fatal error
FatalInLatestTrace(p) == pr[p].pc = "fatal" /\ pr[p].ret # "none"

\* C22 as claimed: the update is atomic, so while a recorder that found
\* latest-trace in place is inside make_latest_trace the link is never
\* missing.
C22_NeverMissing ==
  \A p \in Recorders :
    (pr[p].pc = "symlink" /\ latest_trace_symlink \in pr[p].pre) => LinkExists

\* C22, amended: make_latest_trace is an unlink followed by a symlink, and
\* right after its unlink the link is missing for every process.  A
\* symlink that succeeds leaves the link pointing at this recorder's trace
\* directory; a symlink that fails with EEXIST is not fatal and the link
\* that remains points at the trace directory of another recorder; only
\* another symlink error is fatal.
C22_UnlinkThenSymlink ==
  /\ last.op = "make_latest_trace_unlink" => ~LinkExists
  /\ \A p \in Recorders :
       /\ pr[p].pc = "done" =>
            /\ pr[p].ret \in {"ok", "EEXIST"}
            /\ pr[p].ret = "ok" => pr[p].saw = pr[p].dir
            /\ pr[p].ret = "EEXIST" =>
                 \E q \in Recorders \ {p} :
                   /\ pr[q].ret = "ok"
                   /\ pr[p].saw = pr[q].dir
       /\ FatalInLatestTrace(p) => pr[p].ret \notin {"ok", "EEXIST"}

\* a recorder lost the race: its symlink found the other recorder's link
C22_Witness ==
  /\ pr[1].pc = "done" /\ pr[1].ret = "EEXIST"
  /\ pr[2].pc = "done" /\ pr[2].ret = "ok"
  /\ LinkExists /\ fs[latest_trace_symlink].target = pr[2].dir

\* C27: when the recorders call make_latest_trace concurrently, then once
\* all calls have returned the latest-trace symlink exists and points at
\* the trace directory of one of those recorders; a call ends in a fatal
\* error only when its symlink fails with an error other than EEXIST.
C27_LinkAfterAllReturned ==
  /\ (/\ \A p \in Recorders : pr[p].pc # "symlink" /\ ~FatalInLatestTrace(p)
      /\ \E p \in Recorders : pr[p].pc = "done") =>
       /\ LinkExists
       /\ \E q \in Recorders :
            pr[q].pc = "done" /\ fs[latest_trace_symlink].target = pr[q].dir
  /\ \A p \in Recorders : FatalInLatestTrace(p) => pr[p].ret = "EACCES"

\* both recorders returned after the second one removed the first one's link
C27_Witness ==
  /\ \A p \in Recorders : pr[p].pc = "done" /\ pr[p].ret = "ok"
  /\ LinkExists
  /\ latest_trace_symlink \in pr[1].pre

\* C24: ensure_dir(dir, mode) ends in a fatal error whenever the path or an
\* ancestor exists but is not a directory, or the target is not writable
\* (whether it was there before the call or a concurrent creator made it),
\* and when it returns normally the path is an existing writable directory
\* below existing ancestors.
NotADirectory(files, path) ==
  \E a \in Ancestors(path) \cup {path} :
    a \in DOMAIN files /\ files[a].mode # S_IFDIR

C24_EnsureDirAsClaimed ==
  last.op = "ensure_dir" =>
    LET d == StripSlashes(last.dir) IN
    /\ NotADirectory(last.pre @@ last.race, d) => last.fatal
    /\ (d \in DOMAIN last.pre /\ ~last.pre[d].writable) => last.fatal
    /\ ~last.fatal =>
         /\ d \in DOMAIN fs
         /\ fs[d].mode = S_IFDIR
         /\ fs[d].writable
         /\ \A a \in Ancestors(d) : a \in DOMAIN fs /\ fs[a].mode = S_IFDIR

\* C24: ensure_dir was called on a path where a writable block device is,
\* and returned normally.
C24_Witness ==
  /\ last.op = "ensure_dir"
  /\ ~last.fatal
  /\ StripSlashes(last.dir) \in DOMAIN last.pre
  /\ last.pre[StripSlashes(last.dir)] = BlockDevice

\* the rule list as the claim words it
ClaimedRoot(environ, files) ==
  LET xdg == environ.XDG_DATA_HOME.value \o <<"/", "r", "r">>
      dot == environ.HOME.value \o <<"/", ".", "r", "r">>
      share == environ.HOME.value \o <<"/", ".", "l", "o", "c", "a", "l", "/",
                                      "s", "h", "a", "r", "e", "/", "r", "r">>
  IN IF environ.RR_TRACE_DIR.set THEN environ.RR_TRACE_DIR.value
     ELSE IF environ.XDG_DATA_HOME.set /\ xdg \in DOMAIN files THEN xdg
     ELSE IF environ.HOME.set /\ dot \in DOMAIN files THEN dot
     ELSE IF environ.XDG_DATA_HOME.set THEN xdg
     ELSE IF environ.HOME.set THEN share
     ELSE TmpRr

\* the rule list with the preferred default directory (the XDG directory,
\* or ~/.local/share/rr when only HOME is set) tested for existence first
PreferredDefault(environ) ==
  IF environ.XDG_DATA_HOME.set
  THEN environ.XDG_DATA_HOME.value \o <<"/", "r", "r">>
  ELSE environ.HOME.value \o <<"/", ".", "l", "o", "c", "a", "l", "/",
                              "s", "h", "a", "r", "e", "/", "r", "r">>

DefaultRoot(environ, files) ==
  LET anySet == environ.XDG_DATA_HOME.set \/ environ.HOME.set
      dot == environ.HOME.value \o <<"/", ".", "r", "r">>
  IN IF anySet /\ PreferredDefault(environ) \in DOMAIN files
     THEN PreferredDefault(environ)
     ELSE IF environ.HOME.set /\ dot \in DOMAIN files THEN dot
     ELSE IF anySet THEN PreferredDefault(environ)
     ELSE TmpRr

RootResolved == last.op = "TraceWriter_make_trace_dir"

\* C23 (as stated): the root used for the new trace equals the claim's
\* ordered rule list, and the resolved root exists once the writer has done
\* its ensure step, before the trace subdirectory is made.
C23_RuleListAsClaimed ==
  RootResolved =>
    /\ last.root = ClaimedRoot(last.environ, last.pre)
    /\ last.root \in DOMAIN last.ensured

\* C23 (amended): the root is _RR_TRACE_DIR if set, else the default root,
\* in which the preferred default directory wins over ~/.rr whenever it
\* exists; the writer ensures the default root, whatever _RR_TRACE_DIR says,
\* so a missing _RR_TRACE_DIR directory is not created and the writer ends
\* in a fatal error; otherwise the trace directory is made in the root.
C23_RootResolution ==
  RootResolved =>
    /\ last.default = DefaultRoot(last.environ, last.pre)
    /\ last.root = IF last.environ.RR_TRACE_DIR.set
                   THEN last.environ.RR_TRACE_DIR.value
                   ELSE last.default
    /\ last.default \in DOMAIN last.ensured
    /\ DOMAIN last.ensured = DOMAIN last.pre \cup Ancestors(last.default) \cup {last.default}
    /\ last.fatal <=> last.root \notin DOMAIN last.pre \cup {last.default}
    /\ ~last.fatal =>
         /\ StartsWith(last.dir, last.root)
         /\ last.dir \in DOMAIN fs
         /\ last.dir \notin DOMAIN last.pre

\* C23: only HOME is set, both ~/.local/share/rr and ~/.rr exist, and the
\* trace directory was made in ~/.local/share/rr.
C23_Witness ==
  /\ RootResolved
  /\ ~last.environ.RR_TRACE_DIR.set
  /\ ~last.environ.XDG_DATA_HOME.set
  /\ last.environ.HOME.set
  /\ dot_dir(last.environ) \in DOMAIN last.pre
  /\ xdg_dir(last.environ) \in DOMAIN last.pre
  /\ last.root = xdg_dir(last.environ)
  /\ ~last.fatal

\* the i-th write_mapped_region call created its record's backing file in
\* the trace directory, as a clone or as a hardlink
CreatedBacking(i) ==
  streams.mmaps[i].backingFileName \in
    {str_to_data(CloneName(i - 1, W.mmaps[i].km.fsname)),
     str_to_data(HardlinkName(i - 1, W.mmaps[i].km.fsname))}

\* C25: mmap_count is the number of write_mapped_region calls made so far,
\* whatever other operations the writer has done; a call leaves one record
\* and the count one higher; the i-th call embeds i - 1 in the names it
\* creates, every created backing file is a file of the trace directory,
\* and no later record has the backing file name of an earlier created one.
C25_SequenceNumbers ==
  /\ mmap_count = Len(W.mmaps)
  /\ Len(streams.mmaps) = Len(W.mmaps)
  /\ last.op = "write_mapped_region" => mmap_count = last.pre_count + 1
  /\ last.op = "TraceWriter" => mmap_count = 0
  /\ \A i \in 1..Len(streams.mmaps) :
       streams.mmaps[i].backingFileName \in trace_files => CreatedBacking(i)
  /\ \A i, j \in 1..Len(streams.mmaps) :
       (i < j /\ CreatedBacking(i)) =>
         streams.mmaps[j].backingFileName # streams.mmaps[i].backingFileName
  /\ \A i \in 1..Len(streams.mmaps) :
       CreatedBacking(i) => streams.mmaps[i].backingFileName \in trace_files

\* C25: two calls for the same file each created a backing file, with
\* another write between them.
C25_Witness ==
  /\ Len(streams.mmaps) = 2
  /\ CreatedBacking(1)
  /\ CreatedBacking(2)
  /\ W.mmaps[1].km.fsname = W.mmaps[2].km.fsname
  /\ NumWrites = 3
  /\ last.op = "write_mapped_region"

\* C26: with every frame stamped with the writer's clock and a reader that
\* follows the drain protocol, whatever the order of write_frame, write_raw
\* and write_generic was, no assertion of the reader fails: after read_frame
\* the frame's time is the reader's clock, and every record a drain call
\* returns carries the time of the frame it was asked for, which is the
\* reader's clock.
C26_DrainProtocolSafe ==
  /\ \A r \in Readers : ~rd[r].failed
  /\ last.op = "read_frame" => last.frame.time = rd[last.rdr].time
  /\ (last.op \in {"read_raw_data_for_frame", "read_generic_for_frame"}
        /\ last.ret) =>
       /\ last.d.time = last.frame.time
       /\ last.d.time = rd[last.rdr].time

\* C26: a raw record written between two frames was left alone while the
\* reader drained the first frame and has now been returned for the second.
C26_Witness ==
  /\ last.op = "read_raw_data_for_frame"
  /\ ~rd[last.rdr].failed
  /\ last.ret
  /\ last.frame.time = 2
  /\ rd[last.rdr].n.events = 2
  /\ rd[last.rdr].n.data_header = 1

====
